---- MODULE Spec2Model ----
(***************************************************************************)
(* Model of the smart-tag routes of betteraskprompt-backend                *)
(* (src/src/routes/tags.ts): the Gemini -> Gemini lite -> OpenAI fallback  *)
(* chain, the /generate and /output-suggestions handlers, the shared cache *)
(* and the tag validation / fill-to-quota stage.                           *)
(*                                                                         *)
(* The string functions (includes, replace, trim, split, join) are         *)
(* computed on the characters of a string, a sequence of one-character     *)
(* strings.                                                                *)
(* A handler runs atomically between two awaits (one event-loop task), so  *)
(* there is one action per request arrival and one per provider call that  *)
(* settles.                                                                *)
(***************************************************************************)
EXTENDS Integers, Sequences, FiniteSets, TLC

VARIABLES genAI, openai, now, ticks, cache, pc, ep, body, lookup, calls, geminiError, chainOut,
          responses

vars ==
    <<genAI, openai, now, ticks, cache, pc, ep, body, lookup, calls, geminiError, chainOut,
      responses>>

-----------------------------------------------------------------------------
(* Bounds of the model                                                     *)

\* number of requests a behaviour handles (all may be in flight together)
MaxReqs == 2

\* number of clock advances in a behaviour
MaxTicks == 2

\* length of the lists of tags that are drawn as provider answers
MaxList == 2

Reqs == 1..MaxReqs

-----------------------------------------------------------------------------
(* Strings                                                                 *)

Min(a, b) == IF a < b THEN a ELSE b

\* String.prototype.includes
Includes(s, sub) ==
    \E i \in 1..(Len(s) - Len(sub) + 1) : SubSeq(s, i, i + Len(sub) - 1) = sub

\* TLC's strings are atoms, so the model keeps a string as an atom and reads
\* its characters from this table, which lists every string the model uses.
CharTable ==
    ("" :> <<>>)
    @@ (":7tags" :> <<":","7","t","a","g","s">>)
    @@ ("Act As Expert Tutor" :> <<"A","c","t"," ","A","s"," ","E","x","p","e","r","t"," ","T","u","t","o","r">>)
    @@ ("Act As Friendly Teacher" :> <<"A","c","t"," ","A","s"," ","F","r","i","e","n","d","l","y"," ","T","e","a","c","h","e","r">>)
    @@ ("Add One Simple Analogy Here" :> <<"A","d","d"," ","O","n","e"," ","S","i","m","p","l","e"," ","A","n","a","l","o","g","y"," ","H","e","r","e">>)
    @@ ("Avoid Jargon" :> <<"A","v","o","i","d"," ","J","a","r","g","o","n">>)
    @@ ("Avoid Technical Jargon" :> <<"A","v","o","i","d"," ","T","e","c","h","n","i","c","a","l"," ","J","a","r","g","o","n">>)
    @@ ("Bullet points" :> <<"B","u","l","l","e","t"," ","p","o","i","n","t","s">>)
    @@ ("Cannot read properties of null" :> <<"C","a","n","n","o","t"," ","r","e","a","d"," ","p","r","o","p","e","r","t","i","e","s"," ","o","f"," ","n","u","l","l">>)
    @@ ("Cells" :> <<"C","e","l","l","s">>)
    @@ ("Explain Step By Step" :> <<"E","x","p","l","a","i","n"," ","S","t","e","p"," ","B","y"," ","S","t","e","p">>)
    @@ ("Focus On Key Concepts" :> <<"F","o","c","u","s"," ","O","n"," ","K","e","y"," ","C","o","n","c","e","p","t","s">>)
    @@ ("Format As Bullet Points" :> <<"F","o","r","m","a","t"," ","A","s"," ","B","u","l","l","e","t"," ","P","o","i","n","t","s">>)
    @@ ("Gemini API not configured" :> <<"G","e","m","i","n","i"," ","A","P","I"," ","n","o","t"," ","c","o","n","f","i","g","u","r","e","d">>)
    @@ ("Give Bullet Points" :> <<"G","i","v","e"," ","B","u","l","l","e","t"," ","P","o","i","n","t","s">>)
    @@ ("Give Bullet Points!" :> <<"G","i","v","e"," ","B","u","l","l","e","t"," ","P","o","i","n","t","s","!">>)
    @@ ("Give Real World Examples" :> <<"G","i","v","e"," ","R","e","a","l"," ","W","o","r","l","d"," ","E","x","a","m","p","l","e","s">>)
    @@ ("Include Practice Questions" :> <<"I","n","c","l","u","d","e"," ","P","r","a","c","t","i","c","e"," ","Q","u","e","s","t","i","o","n","s">>)
    @@ ("Internal error" :> <<"I","n","t","e","r","n","a","l"," ","e","r","r","o","r">>)
    @@ ("Missing required fields" :> <<"M","i","s","s","i","n","g"," ","r","e","q","u","i","r","e","d"," ","f","i","e","l","d","s">>)
    @@ ("No response text received from Gemini" :> <<"N","o"," ","r","e","s","p","o","n","s","e"," ","t","e","x","t"," ","r","e","c","e","i","v","e","d"," ","f","r","o","m"," ","G","e","m","i","n","i">>)
    @@ ("No valid tags generated after validation" :> <<"N","o"," ","v","a","l","i","d"," ","t","a","g","s"," ","g","e","n","e","r","a","t","e","d"," ","a","f","t","e","r"," ","v","a","l","i","d","a","t","i","o","n">>)
    @@ ("Numbered list format" :> <<"N","u","m","b","e","r","e","d"," ","l","i","s","t"," ","f","o","r","m","a","t">>)
    @@ ("Question answer pairs" :> <<"Q","u","e","s","t","i","o","n"," ","a","n","s","w","e","r"," ","p","a","i","r","s">>)
    @@ ("Quiz with answer key" :> <<"Q","u","i","z"," ","w","i","t","h"," ","a","n","s","w","e","r"," ","k","e","y">>)
    @@ ("Quota exceeded" :> <<"Q","u","o","t","a"," ","e","x","c","e","e","d","e","d">>)
    @@ ("Service Unavailable" :> <<"S","e","r","v","i","c","e"," ","U","n","a","v","a","i","l","a","b","l","e">>)
    @@ ("Short summary" :> <<"S","h","o","r","t"," ","s","u","m","m","a","r","y">>)
    @@ ("Student" :> <<"S","t","u","d","e","n","t">>)
    @@ ("Table with columns" :> <<"T","a","b","l","e"," ","w","i","t","h"," ","c","o","l","u","m","n","s">>)
    @@ ("Too Many Requests" :> <<"T","o","o"," ","M","a","n","y"," ","R","e","q","u","e","s","t","s">>)
    @@ ("Unauthorized" :> <<"U","n","a","u","t","h","o","r","i","z","e","d">>)
    @@ ("Unexpected end of JSON input" :> <<"U","n","e","x","p","e","c","t","e","d"," ","e","n","d"," ","o","f"," ","J","S","O","N"," ","i","n","p","u","t">>)
    @@ ("Use Class 10 Level" :> <<"U","s","e"," ","C","l","a","s","s"," ","1","0"," ","L","e","v","e","l">>)
    @@ ("Use Simple Language" :> <<"U","s","e"," ","S","i","m","p","l","e"," ","L","a","n","g","u","a","g","e">>)
    @@ ("Visual diagram style" :> <<"V","i","s","u","a","l"," ","d","i","a","g","r","a","m"," ","s","t","y","l","e">>)
    @@ ("connect ECONNREFUSED" :> <<"c","o","n","n","e","c","t"," ","E","C","O","N","N","R","E","F","U","S","E","D">>)
    @@ ("learn" :> <<"l","e","a","r","n">>)
    @@ ("model overloaded" :> <<"m","o","d","e","l"," ","o","v","e","r","l","o","a","d","e","d">>)
    @@ ("object is not iterable" :> <<"o","b","j","e","c","t"," ","i","s"," ","n","o","t"," ","i","t","e","r","a","b","l","e">>)
    @@ ("output:" :> <<"o","u","t","p","u","t",":">>)
    @@ ("overloaded" :> <<"o","v","e","r","l","o","a","d","e","d">>)
    @@ ("quota" :> <<"q","u","o","t","a">>)
    @@ ("quota exceeded" :> <<"q","u","o","t","a"," ","e","x","c","e","e","d","e","d">>)
    @@ ("rate limit" :> <<"r","a","t","e"," ","l","i","m","i","t">>)
    @@ ("rate limit hit" :> <<"r","a","t","e"," ","l","i","m","i","t"," ","h","i","t">>)
    @@ ("result.text is not a function" :> <<"r","e","s","u","l","t",".","t","e","x","t"," ","i","s"," ","n","o","t"," ","a"," ","f","u","n","c","t","i","o","n">>)
    @@ ("tag.replace is not a function" :> <<"t","a","g",".","r","e","p","l","a","c","e"," ","i","s"," ","n","o","t"," ","a"," ","f","u","n","c","t","i","o","n">>)
    @@ ("Be Strict Exam Coach" :> <<"B","e"," ","S","t","r","i","c","t"," ","E","x","a","m"," ","C","o","a","c","h">>)
    @@ ("Follow CBSE Style" :> <<"F","o","l","l","o","w"," ","C","B","S","E"," ","S","t","y","l","e">>)
    @@ ("Generate Practice Questions" :> <<"G","e","n","e","r","a","t","e"," ","P","r","a","c","t","i","c","e"," ","Q","u","e","s","t","i","o","n","s">>)
    @@ ("Make Short Notes" :> <<"M","a","k","e"," ","S","h","o","r","t"," ","N","o","t","e","s">>)
    @@ ("Add Simple Analogy" :> <<"A","d","d"," ","S","i","m","p","l","e"," ","A","n","a","l","o","g","y">>)
    @@ ("Timeline format diagram" :> <<"T","i","m","e","l","i","n","e"," ","f","o","r","m","a","t"," ","d","i","a","g","r","a","m">>)
    @@ ("Stepwise numbered headings" :> <<"S","t","e","p","w","i","s","e"," ","n","u","m","b","e","r","e","d"," ","h","e","a","d","i","n","g","s">>)
    @@ ("Atoms" :> <<"A","t","o","m","s">>)
    @@ ("revise" :> <<"r","e","v","i","s","e">>)
    @@ ("Teacher" :> <<"T","e","a","c","h","e","r">>)
    @@ ("tag.trim is not a function" :> <<"t","a","g",".","t","r","i","m"," ","i","s"," ","n","o","t"," ","a"," ","f","u","n","c","t","i","o","n">>)
    @@ ("  Use   Simple Words " :> <<" "," ","U","s","e"," "," "," ","S","i","m","p","l","e"," ","W","o","r","d","s"," ">>)
    @@ ("Use   Simple Words" :> <<"U","s","e"," "," "," ","S","i","m","p","l","e"," ","W","o","r","d","s">>)
    @@ ("Pros - Cons" :> <<"P","r","o","s"," ","-"," ","C","o","n","s">>)
    @@ ("Pros  Cons" :> <<"P","r","o","s"," "," ","C","o","n","s">>)
    @@ ("Use Short & Clear Words" :> <<"U","s","e"," ","S","h","o","r","t"," ","&"," ","C","l","e","a","r"," ","W","o","r","d","s">>)
    @@ ("Use Short  Clear Words" :> <<"U","s","e"," ","S","h","o","r","t"," "," ","C","l","e","a","r"," ","W","o","r","d","s">>)
    @@ ("?!" :> <<"?","!">>)
    @@ ("API key" :> <<"A","P","I"," ","k","e","y">>)
    @@ ("401" :> <<"4","0","1">>)
    @@ ("429" :> <<"4","2","9">>)
    @@ ("model" :> <<"m","o","d","e","l">>)
    @@ ("permission" :> <<"p","e","r","m","i","s","s","i","o","n">>)
    @@ ("API key not valid" :> <<"A","P","I"," ","k","e","y"," ","n","o","t"," ","v","a","l","i","d">>)
    @@ ("The model is overloaded" :> <<"T","h","e"," ","m","o","d","e","l"," ","i","s"," ","o","v","e","r","l","o","a","d","e","d">>)
    @@ ("connect ETIMEDOUT" :> <<"c","o","n","n","e","c","t"," ","E","T","I","M","E","D","O","U","T">>)
    @@ ("getaddrinfo ENOTFOUND" :> <<"g","e","t","a","d","d","r","i","n","f","o"," ","E","N","O","T","F","O","U","N","D">>)
    @@ ("Empty response from Gemini API" :> <<"E","m","p","t","y"," ","r","e","s","p","o","n","s","e"," ","f","r","o","m"," ","G","e","m","i","n","i"," ","A","P","I">>)
    @@ ("Failed to parse Gemini response as JSON: Unexpected token S in JSON at position 0" :> <<"F","a","i","l","e","d"," ","t","o"," ","p","a","r","s","e"," ","G","e","m","i","n","i"," ","r","e","s","p","o","n","s","e"," ","a","s"," ","J","S","O","N",":"," ","U","n","e","x","p","e","c","t","e","d"," ","t","o","k","e","n"," ","S"," ","i","n"," ","J","S","O","N"," ","a","t"," ","p","o","s","i","t","i","o","n"," ","0">>)
    @@ ("Explain photosynthesis" :> <<"E","x","p","l","a","i","n"," ","p","h","o","t","o","s","y","n","t","h","e","s","i","s">>)
    @@ ("   " :> <<" "," "," ">>)
    @@ (" Explain photosynthesis " :> <<" ","E","x","p","l","a","i","n"," ","p","h","o","t","o","s","y","n","t","h","e","s","i","s"," ">>)
    @@ ("{full}" :> <<"{","f","u","l","l","}">>)
    @@ (" {full} " :> <<" ","{","f","u","l","l","}"," ">>)
    @@ ("{taskOnly}" :> <<"{","t","a","s","k","O","n","l","y","}">>)
    @@ ("{noTask}" :> <<"{","n","o","T","a","s","k","}">>)
    @@ ("{noImproved}" :> <<"{","n","o","I","m","p","r","o","v","e","d","}">>)
    @@ ("{textImproved}" :> <<"{","t","e","x","t","I","m","p","r","o","v","e","d","}">>)
    @@ ("null" :> <<"n","u","l","l">>)
    @@ ("Sorry, I cannot help" :> <<"S","o","r","r","y",","," ","I"," ","c","a","n","n","o","t"," ","h","e","l","p">>)
    @@ ("Forbidden" :> <<"F","o","r","b","i","d","d","e","n">>)
    @@ ("Cells:learn" :> <<"C","e","l","l","s",":","l","e","a","r","n">>)
    @@ ("fast" :> <<"f","a","s","t">>)
    @@ ("learn:fast" :> <<"l","e","a","r","n",":","f","a","s","t">>)
    @@ ("output" :> <<"o","u","t","p","u","t">>)
    @@ ("learn:Student:" :> <<"l","e","a","r","n",":","S","t","u","d","e","n","t",":">>)
    @@ ("7tags" :> <<"7","t","a","g","s">>)

Chars(s) == CharTable[s]

\* the string with these characters
FromChars(cs) == CHOOSE s \in DOMAIN CharTable : CharTable[s] = cs

\* String.prototype.includes, on two strings
StrIncludes(s, sub) == Includes(Chars(s), Chars(sub))

\* Array.prototype.includes
Contains(seq, x) == \E i \in 1..Len(seq) : seq[i] = x

\* \w of a JavaScript regular expression
WordChars ==
    {"a","b","c","d","e","f","g","h","i","j","k","l","m","n","o","p","q","r","s","t",
     "u","v","w","x","y","z","A","B","C","D","E","F","G","H","I","J","K","L","M","N",
     "O","P","Q","R","S","T","U","V","W","X","Y","Z","0","1","2","3","4","5","6","7",
     "8","9","_"}

\* \s of a JavaScript regular expression (the characters the model uses)
SpaceChars == {" ", "\t", "\n"}

\* s.replace(/[^\w\s]/g, '')
StripPunct(s) == SelectSeq(s, LAMBDA c : c \in WordChars \/ c \in SpaceChars)

RECURSIVE TrimStart(_)
TrimStart(s) ==
    IF s # <<>> /\ Head(s) \in SpaceChars THEN TrimStart(Tail(s)) ELSE s

RECURSIVE TrimEnd(_)
TrimEnd(s) ==
    IF s # <<>> /\ s[Len(s)] \in SpaceChars THEN TrimEnd(SubSeq(s, 1, Len(s) - 1)) ELSE s

\* String.prototype.trim
Trim(s) == TrimEnd(TrimStart(s))

\* s.split(/\s+/): cur is the piece being read, inGap says the last character
\* read was white space. An empty string splits into one empty piece.
RECURSIVE SplitFrom(_, _, _)
SplitFrom(s, cur, inGap) ==
    IF s = <<>> THEN <<cur>>
    ELSE IF Head(s) \in SpaceChars
         THEN IF inGap THEN SplitFrom(Tail(s), cur, TRUE)
              ELSE <<cur>> \o SplitFrom(Tail(s), <<>>, TRUE)
         ELSE SplitFrom(Tail(s), Append(cur, Head(s)), FALSE)

SplitWs(s) == SplitFrom(s, <<>>, FALSE)

\* [...new Set(seq)]: first occurrences, in order
RECURSIVE Dedupe(_)
Dedupe(seq) ==
    IF seq = <<>> THEN <<>>
    ELSE LET init == Dedupe(SubSeq(seq, 1, Len(seq) - 1))
             last == seq[Len(seq)]
         IN IF Contains(init, last) THEN init ELSE Append(init, last)

\* Array.prototype.slice(0, n)
Slice(seq, n) == SubSeq(seq, 1, Min(n, Len(seq)))

\* Array.prototype.join(sep), as the characters of the joined string
RECURSIVE Join(_, _)
Join(seq, sep) ==
    IF seq = <<>> THEN <<>>
    ELSE IF Len(seq) = 1 THEN Chars(seq[1])
    ELSE Chars(seq[1]) \o sep \o Join(Tail(seq), sep)

-----------------------------------------------------------------------------
(* Program constants and static data                                       *)

\* const CACHE_TTL_MS = 10 * 60 * 1000
CACHE_TTL_MS == 10 * 60 * 1000

\* const count = 7 (and the literal 7 of FALLBACK_TAGS.slice(0, 7))
TagCount == 7

\* the literal 3 of /output-suggestions
SuggestionCount == 3

FALLBACK_TAGS ==
    << "Explain Step By Step",
       "Give Real World Examples",
       "Use Simple Language",
       "Format As Bullet Points",
       "Include Practice Questions",
       "Act As Expert Tutor",
       "Focus On Key Concepts",
       "Avoid Technical Jargon" >>

FALLBACK_OUTPUT ==
    << "Numbered list format",
       "Visual diagram style",
       "Question answer pairs" >>

\* the two options /output-suggestions always excludes
DefaultOutputs ==
    << "Bullet points",
       "Short summary" >>

GeminiPrimaryModel == "gemini-2.5-flash"
GeminiLiteModel == "gemini-2.5-flash-lite"
GeminiOutputModel == "gemini-1.5-flash"
OpenAIModel == "gpt-4o-mini"

\* the suffix and prefix of the two cache keys
KeySuffix7 == ":7tags"
KeyPrefixOutput == "output:"
Colon == <<":">>
Comma == <<",">>

-----------------------------------------------------------------------------
(* Errors                                                                  *)

\* A thrown value: status 0 and code "" stand for an absent property; from
\* names the call or the handler stage that created the object.
MkErr(name, status, code, message) ==
    [name |-> name, status |-> status, code |-> code, message |-> message, from |-> "none"]

NoError == MkErr("none", 0, "", "")

RaisedBy(e, who) == [e EXCEPT !.from = who]

MsgQuota == "quota"
MsgRateLimit == "rate limit"
MsgOverloaded == "overloaded"

E429 == MkErr("ApiError", 429, "", "Too Many Requests")
E503 == MkErr("ApiError", 503, "", "Service Unavailable")
EQuotaMsg == MkErr("Error", 0, "", "quota exceeded")
ERateMsg == MkErr("Error", 0, "", "rate limit hit")
EOverMsg == MkErr("Error", 0, "", "model overloaded")
EQuotaCap == MkErr("Error", 0, "", "Quota exceeded")
E401 == MkErr("ApiError", 401, "", "Unauthorized")
E401Quota == MkErr("ApiError", 401, "", "quota exceeded")
E500 == MkErr("ApiError", 500, "", "Internal error")
ENet == MkErr("Error", 0, "ECONNREFUSED", "connect ECONNREFUSED")

\* errors the handlers create themselves
ErrNoText == MkErr("Error", 0, "", "No response text received from Gemini")
ErrJson == MkErr("SyntaxError", 0, "", "Unexpected end of JSON input")
ErrNotIterable == MkErr("TypeError", 0, "", "object is not iterable")
ErrNotString == MkErr("TypeError", 0, "", "tag.replace is not a function")
ErrNotStringTrim == MkErr("TypeError", 0, "", "tag.trim is not a function")
ErrNullParsed == MkErr("TypeError", 0, "", "Cannot read properties of null")
ErrNoValidTags == MkErr("Error", 0, "", "No valid tags generated after validation")
ErrTextNotFn == MkErr("TypeError", 0, "", "result.text is not a function")

MsgMissingFields == "Missing required fields"
MsgNotConfigured == "Gemini API not configured"

-----------------------------------------------------------------------------
(* Classification of a primary failure                                     *)

\* IsRetryable without the test of status 503
IsRetryableWithout503(error) ==
    \/ error.status = 429
    \/ StrIncludes(error.message, MsgQuota)
    \/ StrIncludes(error.message, MsgRateLimit)
    \/ StrIncludes(error.message, MsgOverloaded)

\* the condition of the inner try of generateWithFallback
IsRetryable(error) ==
    \/ error.status = 429
    \/ error.status = 503
    \/ StrIncludes(error.message, MsgQuota)
    \/ StrIncludes(error.message, MsgRateLimit)
    \/ StrIncludes(error.message, MsgOverloaded)

-----------------------------------------------------------------------------
(* JSON values of request bodies and provider payloads                     *)

\* A list-valued property: kind "array" with its items, kind "undefined"
\* for a property that is absent, kind "null" for an explicit null.
Arr(items) == [kind |-> "array", items |-> items]
Undef == [kind |-> "undefined", items |-> <<>>]
Null == [kind |-> "null", items |-> <<>>]

\* An item of a provider array: a string, or a value that is no string.
Str(s) == [isStr |-> TRUE, s |-> s]
NotStr == [isStr |-> FALSE, s |-> ""]

GroupNames == <<"personaStyle", "addContext", "taskInstruction", "formatConstraints", "reasoningHelp">>

\* A parsed provider payload: kind "null" is the JSON value null, kind
\* "object" an object with the list properties the handlers read.
Payload(ps, ac, ti, fc, rh, sg, tg) ==
    [kind |-> "object",
     personaStyle |-> ps, addContext |-> ac, taskInstruction |-> ti,
     formatConstraints |-> fc, reasoningHelp |-> rh, suggestions |-> sg, tags |-> tg]

NullPayload == [Payload(Undef, Undef, Undef, Undef, Undef, Undef, Undef) EXCEPT !.kind = "null"]

\* What a provider call that returns carries: text is the text of the
\* answer ("" when it is absent or empty), shape says how the result exposes
\* it: "getter" (result.text is the string, as the SDK of these routes has
\* it), "method" (result.text() returns it, as the first variant of /generate
\* reads it) or "value" (the result is the parsed value itself, as
\* generateWithOpenAI returns it).
Result(text) == [text |-> text, shape |-> "getter"]
MethodResult(text) == [text |-> text, shape |-> "method"]
ValueResult(text) == [text |-> text, shape |-> "value"]

NoResult == [text |-> "none", shape |-> "none"]

TagFriendly == "Act As Friendly Teacher"
TagClass10 == "Use Class 10 Level"
TagTwoWords == "Avoid Jargon"
TagPunct == "Give Bullet Points!"
TagPunctClean == "Give Bullet Points"
TagStatic1 == "Explain Step By Step"
TagFiveWords == "Add One Simple Analogy Here"
TagTable == "Table with columns"
TagQuiz == "Quiz with answer key"
TagCoach == "Be Strict Exam Coach"
TagCbse == "Follow CBSE Style"
TagPractice == "Generate Practice Questions"
TagNotes == "Make Short Notes"
TagAnalogy == "Add Simple Analogy"
TagTimeline == "Timeline format diagram"
TagHeadings == "Stepwise numbered headings"
TagSpaced == "  Use   Simple Words "
TagSpacedClean == "Use   Simple Words"
TagDash == "Pros - Cons"
TagDashClean == "Pros  Cons"
TagAmpersand == "Use Short & Clear Words"
TagAmpersandClean == "Use Short  Clear Words"
TagOnlyPunct == "?!"

\* a well-formed answer: one tag per group, among them a two-word tag, a tag
\* with punctuation and a tag that is also in the static dataset
PayloadGood ==
    Payload(Arr(<<Str(TagFriendly)>>), Arr(<<Str(TagClass10)>>), Arr(<<Str(TagTwoWords)>>),
            Arr(<<Str(TagPunct)>>), Arr(<<Str(TagStatic1)>>),
            Arr(<<Str(TagTable), Str(TagQuiz), Str(TagTwoWords)>>),
            Arr(<<Str(TagFriendly), Str(TagTwoWords), Str(TagClass10)>>))

\* an answer in which no entry has three or four words, and groups are missing
PayloadNoValid ==
    Payload(Arr(<<Str(TagTwoWords)>>), Undef, Arr(<<Str(TagFiveWords)>>), Undef, Arr(<<>>),
            Arr(<<Str(TagTwoWords)>>), Arr(<<Str(TagFiveWords)>>))

\* an answer with an entry that is no string
PayloadNotString ==
    Payload(Arr(<<Str(TagFriendly), NotStr>>), Arr(<<>>), Arr(<<>>), Arr(<<>>), Arr(<<>>),
            Arr(<<NotStr>>), Arr(<<NotStr>>))

\* an answer with more valid tags than any quota
PayloadMany ==
    Payload(Arr(<<Str(TagFriendly), Str(TagCoach)>>), Arr(<<Str(TagClass10), Str(TagCbse)>>),
            Arr(<<Str(TagPractice), Str(TagFriendly)>>), Arr(<<Str(TagPunct), Str(TagNotes)>>),
            Arr(<<Str(TagStatic1), Str(TagAnalogy)>>),
            Arr(<<Str(TagTable), Str(TagQuiz), Str(TagTimeline), Str(TagHeadings)>>),
            Arr(<<Str(TagFriendly), Str(TagClass10), Str(TagCoach), Str(TagCbse),
                  Str(TagPractice), Str(TagNotes)>>))

\* The texts a provider can answer with, and JSON.parse of each: a text that
\* is not in the table is no JSON, and JSON.parse throws a SyntaxError.
TextGood == "{good}"
TextNoValid == "{noValid}"
TextNotString == "{notString}"
TextMany == "{many}"
TextNull == "null"
TextInvalid == "Sorry, I cannot help"
TextEmpty == ""
TextMixed == "{mixed}"

\* Answers that hold one list of tags, as personaStyle and as suggestions:
\* every list of at most MaxList of these entries, which have two to five
\* words, punctuation, white space at the ends and in runs, or no word at all.
ValidateInputs ==
    {TagTwoWords, TagClass10, TagFriendly, TagFiveWords, TagPunct, TagSpaced, TagDash,
     TagAmpersand, TagOnlyPunct}

ValidateLists == UNION {[1..n -> ValidateInputs] : n \in 0..MaxList}

\* the answer with the list tags
ListPayload(tags) ==
    LET list == Arr([i \in 1..Len(tags) |-> Str(tags[i])])
    IN Payload(list, Undef, Undef, Undef, Undef, list, list)

\* the answer with tags of two, three, four and five words
PayloadMixed == ListPayload(<<TagTwoWords, TagClass10, TagFriendly, TagFiveWords>>)

\* the text of that answer
ListText == [tags \in ValidateLists |-> ToString(tags)]

ListTexts == {ListText[tags] : tags \in ValidateLists}

JsonTable ==
    (TextGood :> PayloadGood) @@ (TextNoValid :> PayloadNoValid)
    @@ (TextNotString :> PayloadNotString) @@ (TextMany :> PayloadMany)
    @@ (TextNull :> NullPayload) @@ (TextMixed :> PayloadMixed)
    @@ [text \in ListTexts |->
            ListPayload(CHOOSE tags \in ValidateLists : ListText[tags] = text)]

IsJson(text) == text \in DOMAIN JsonTable

JsonParse(text) == JsonTable[text]

-----------------------------------------------------------------------------
(* Validation and fill-to-quota                                            *)

\* tag.replace(/[^\w\s]/g, '').trim(), on the characters of tag
CleanChars(cs) == Trim(StripPunct(cs))

\* ValidChars that counts the words of the entry as it came
ValidCharsRaw(cs) ==
    LET words == SplitWs(Trim(cs))
    IN Len(words) >= 3 /\ Len(words) <= 4

\* the predicate of validateTags and validateSuggestion, on the characters
ValidChars(cs) ==
    LET cleanTag == CleanChars(cs)
        words == SplitWs(cleanTag)
    IN Len(words) >= 3 /\ Len(words) <= 4

\* the tags that occur in the model's request bodies and provider answers
TagStrings ==
    {TagFriendly, TagClass10, TagTwoWords, TagPunct, TagPunctClean, TagStatic1, TagFiveWords,
     TagTable, TagQuiz, TagCoach, TagCbse, TagPractice, TagNotes, TagAnalogy, TagTimeline,
     TagHeadings, TagSpaced, TagSpacedClean, TagDash, TagDashClean, TagAmpersand,
     TagAmpersandClean, TagOnlyPunct, ""}

\* CleanChars and ValidChars of each of them, computed once
CleanTable == [s \in TagStrings |-> FromChars(CleanChars(Chars(s)))]
ValidTable == [s \in TagStrings |-> ValidChars(Chars(s))]

\* tag.replace(/[^\w\s]/g, '').trim()
CleanTag(tag) == CleanTable[tag]

\* the predicate of validateTags and validateSuggestion
WordCountOk(tag) == ValidTable[tag]

\* the strings of a list of items
RECURSIVE Strings(_)
Strings(items) ==
    IF items = <<>> THEN <<>> ELSE <<Head(items).s>> \o Strings(Tail(items))

RECURSIVE MapClean(_)
MapClean(tags) ==
    IF tags = <<>> THEN <<>> ELSE <<CleanTag(Head(tags))>> \o MapClean(Tail(tags))

\* tag.replace throws a TypeError on an entry that is no string
HasNotString(list) == \E i \in 1..Len(list.items) : ~list.items[i].isStr

\* validateTags(tags), for a list whose entries are strings
validateTags(list) ==
    IF list.kind # "array" THEN <<>>
    ELSE MapClean(SelectSeq(Strings(list.items), WordCountOk))

\* reading a property of parsed throws when parsed is null; validateTags
\* throws on an entry that is no string
GroupsThrow(parsed) ==
    \/ parsed.kind = "null"
    \/ \E i \in 1..Len(GroupNames) : HasNotString(parsed[GroupNames[i]])

GroupsError(parsed) == IF parsed.kind = "null" THEN ErrNullParsed ELSE ErrNotString

\* const groups = { personaStyle: validateTags(parsed.personaStyle), ... }
Groups(parsed) == [i \in 1..Len(GroupNames) |-> validateTags(parsed[GroupNames[i]])]

\* AllTags with the groups in the opposite order
AllTagsReversed(groups) == groups[5] \o groups[4] \o groups[3] \o groups[2] \o groups[1]

\* const allTags = [...groups.personaStyle, ..., ...groups.reasoningHelp]
AllTags(groups) == groups[1] \o groups[2] \o groups[3] \o groups[4] \o groups[5]

\* FillToQuota without the slice at its end
FillToQuotaNoSlice(batch, existing, static, count) ==
    LET available == SelectSeq(static, LAMBDA t : ~Contains(existing, t) /\ ~Contains(batch, t))
    IN IF Len(batch) < count
       THEN batch \o Slice(available, count - Len(batch))
       ELSE batch

\* FillToQuota that fills with static entries whatever the excluded ones
FillToQuotaAnyStatic(batch, existing, static, count) ==
    LET available == SelectSeq(static, LAMBDA t : ~Contains(batch, t))
        filled == IF Len(batch) < count
                  THEN batch \o Slice(available, count - Len(batch))
                  ELSE batch
    IN Slice(filled, count)

\* the fill: batch, then the static entries that are neither excluded nor in
\* the batch, up to count; then slice(0, count)
FillToQuota(batch, existing, static, count) ==
    LET available == SelectSeq(static, LAMBDA t : ~Contains(existing, t) /\ ~Contains(batch, t))
        filled == IF Len(batch) < count
                  THEN batch \o Slice(available, count - Len(batch))
                  ELSE batch
    IN Slice(filled, count)

\* let finalTags = allTags.filter(t => !existingTags.includes(t)); fill; slice
FinalTags(allTags, existingTags) ==
    FillToQuota(SelectSeq(allTags, LAMBDA t : ~Contains(existingTags, t)),
                existingTags, FALLBACK_TAGS, TagCount)

-----------------------------------------------------------------------------
(* Request bodies                                                          *)

ReqBody(topic, intent, persona, stage, sel, vis, smart, outp) ==
    [topic |-> topic, intent |-> intent, persona |-> persona, stage |-> stage,
     selectedTags |-> sel, visibleTags |-> vis,
     selectedSmartTags |-> smart, selectedOutputTags |-> outp]

TopicCells == "Cells"
IntentLearn == "learn"
PersonaStudent == "Student"
TopicAtoms == "Atoms"
IntentRevise == "revise"
PersonaTeacher == "Teacher"

\* only the required fields
BodyPlain == ReqBody(TopicCells, IntentLearn, PersonaStudent, 1, Undef, Undef, Undef, Undef)

\* with tags already selected and shown
BodySelected ==
    ReqBody(TopicCells, IntentLearn, PersonaStudent, 2,
            Arr(<<TagFriendly, FALLBACK_TAGS[2]>>), Arr(<<TagFriendly, FALLBACK_TAGS[1]>>),
            Arr(<<TagFriendly>>), Arr(<<TagTable, FALLBACK_OUTPUT[1]>>))

\* topic missing (undefined and the empty string are both falsy)
BodyNoTopic == ReqBody("", IntentLearn, PersonaStudent, 1, Undef, Undef, Undef, Undef)

\* persona missing
BodyNoPersona == ReqBody(TopicCells, IntentLearn, "", 1, Undef, Undef, Undef, Undef)

\* the tag lists sent as null: the = [] defaults apply to undefined only
BodyNullLists == ReqBody(TopicCells, IntentLearn, PersonaStudent, 1, Null, Null, Null, Null)

\* another topic, intent and persona
BodyAtoms ==
    ReqBody(TopicAtoms, IntentRevise, PersonaTeacher, 2,
            Arr(<<TagClass10>>), Undef, Undef, Arr(<<TagQuiz>>))

\* field values that hold the separator of the cache keys: the same words,
\* split at another colon
TopicCellsLearn == "Cells:learn"
IntentFast == "fast"
IntentLearnFast == "learn:fast"

BodyColonTopic ==
    ReqBody(TopicCellsLearn, IntentFast, PersonaStudent, 1, Undef, Undef, Undef, Undef)

BodyColonIntent ==
    ReqBody(TopicCells, IntentLearnFast, PersonaStudent, 1, Undef, Undef, Undef, Undef)

\* a body for /output-suggestions whose one selected output tag reads as
\* the suffix of the /generate key, and a body for /generate whose topic
\* reads as the prefix of the /output-suggestions key
TagSeven == "7tags"
TopicOutput == "output"
PersonaLearnStudent == "learn:Student:"

BodyOutputSeven ==
    ReqBody(TopicCells, IntentLearn, PersonaStudent, 1, Undef, Undef, Undef, Arr(<<TagSeven>>))

BodyTopicOutput ==
    ReqBody(TopicOutput, TopicCells, PersonaLearnStudent, 1, Undef, Undef, Undef, Undef)

NoBody == ReqBody("", "", "", 0, Undef, Undef, Undef, Undef)

\* a destructuring default: selectedTags = []
Default(v) == IF v.kind = "undefined" THEN Arr(<<>>) ELSE v

\* MissingFields that does not ask for the persona
MissingFieldsNoPersona(b) == b.topic = "" \/ b.intent = ""

\* !topic || !intent || !persona
MissingFields(b) == b.topic = "" \/ b.intent = "" \/ b.persona = ""

\* `${topic}:${intent}:${persona}:7tags`
GenerateKey(b) ==
    Chars(b.topic) \o Colon \o Chars(b.intent) \o Colon \o Chars(b.persona) \o Chars(KeySuffix7)

\* `output:${topic}:${intent}:${persona}:${selectedSmartTags.join(',')}:${selectedOutputTags.join(',')}`
OutputKey(b) ==
    Chars(KeyPrefixOutput) \o Chars(b.topic) \o Colon \o Chars(b.intent) \o Colon
        \o Chars(b.persona) \o Colon
        \o Join(Default(b.selectedSmartTags).items, Comma) \o Colon
        \o Join(Default(b.selectedOutputTags).items, Comma)

\* .join is no method of null: building the key throws, outside every try
OutputKeyThrows(b) ==
    Default(b.selectedSmartTags).kind # "array" \/ Default(b.selectedOutputTags).kind # "array"

\* [...selectedTags, ...visibleTags] throws when one of them is not iterable
ExistingTagsThrows(b) ==
    Default(b.selectedTags).kind # "array" \/ Default(b.visibleTags).kind # "array"

\* const existingTags = [...new Set([...selectedTags, ...visibleTags])]
ExistingTags(b) == Dedupe(Default(b.selectedTags).items \o Default(b.visibleTags).items)

\* ['Bullet points', 'Short summary', ...selectedOutputTags] throws likewise
ExistingOutputsThrows(b) == Default(b.selectedOutputTags).kind # "array"

\* const existingOutputs = [...new Set(['Bullet points', 'Short summary', ...selectedOutputTags])]
ExistingOutputs(b) == Dedupe(DefaultOutputs \o Default(b.selectedOutputTags).items)

-----------------------------------------------------------------------------
(* Responses                                                               *)

NoGroups == [i \in 1..Len(GroupNames) |-> <<>>]

\* res.status(status).json(...): keys is the set of properties the payload has;
\* a property that is not in keys holds a placeholder
Response(status, keys, success, tags, groups, suggestions, fallback, message) ==
    [status |-> status, keys |-> keys, success |-> success, tags |-> tags,
     groups |-> groups, suggestions |-> suggestions, fallback |-> fallback,
     message |-> message]

\* no payload
NoResponse == Response(0, {}, FALSE, <<>>, NoGroups, <<>>, FALSE, "")

\* res.status(400).json({ success: false, message: 'Missing required fields' })
BadRequest ==
    Response(400, {"success", "message"}, FALSE, <<>>, NoGroups, <<>>, FALSE, MsgMissingFields)

\* what Express answers when it is handed the error of a handler: its
\* default error handler sends status 500 and no JSON payload
ExpressError == Response(500, {}, FALSE, <<>>, NoGroups, <<>>, FALSE, "")

\* error instanceof Error ? error.message : 'Unknown error'
\* (every value the model throws is an Error)
MessageOf(error) == error.message

\* the static answer of /generate: no credentials, or the catch block
StaticTags(message) ==
    Response(200, {"success", "tags", "fallback", "message"}, TRUE,
             Slice(FALLBACK_TAGS, 7), NoGroups, <<>>, TRUE, message)

\* FreshTags that marks the payload as a fallback
FreshTagsAsFallback(groups, finalTags) ==
    Response(200, {"success", "groups", "tags", "fallback"}, TRUE,
             finalTags, groups, <<>>, TRUE, "")

\* const responseData = { success: true, groups, tags: finalTags, fallback: false }
FreshTags(groups, finalTags) ==
    Response(200, {"success", "groups", "tags", "fallback"}, TRUE,
             finalTags, groups, <<>>, FALSE, "")

\* the static answer of /output-suggestions
StaticOutput(message) ==
    Response(200, {"success", "suggestions", "fallback", "message"}, TRUE,
             <<>>, NoGroups, FALLBACK_OUTPUT, TRUE, message)

\* const responseData = { success: true, suggestions, fallback: false }
FreshOutput(suggestions) ==
    Response(200, {"success", "suggestions", "fallback"}, TRUE,
             <<>>, NoGroups, suggestions, FALSE, "")

-----------------------------------------------------------------------------
(* The cache: a Map, here the set of its entries, at most one per key      *)

HasEntry(c, key) == \E e \in c : e.key = key

EntryOf(c, key) == CHOOSE e \in c : e.key = key

\* cache.delete(key)
CacheDelete(c, key) == {e \in c : e.key # key}

\* CacheSet that does not stamp the entry with the time of the write
CacheSetUnstamped(c, key, data, timestamp) ==
    CacheDelete(c, key) \cup {[key |-> key, data |-> data, timestamp |-> 0]}

\* cache.set(key, { data, timestamp })
CacheSet(c, key, data, timestamp) ==
    CacheDelete(c, key) \cup {[key |-> key, data |-> data, timestamp |-> timestamp]}

\* CacheCheck that never finds an entry
CacheCheckMiss(c, key, t) == [hit |-> FALSE, data |-> NoResponse, cache |-> c]

\* CacheCheck that still serves an entry whose age equals CACHE_TTL_MS
CacheCheckInclusive(c, key, t) ==
    IF HasEntry(c, key)
    THEN LET cached == EntryOf(c, key)
             age == t - cached.timestamp
         IN IF age <= CACHE_TTL_MS
            THEN [hit |-> TRUE, data |-> cached.data, cache |-> c]
            ELSE [hit |-> FALSE, data |-> NoResponse, cache |-> CacheDelete(c, key)]
    ELSE [hit |-> FALSE, data |-> NoResponse, cache |-> c]

\* CacheCheck that stamps the entry anew when it serves it
CacheCheckRefreshes(c, key, t) ==
    IF HasEntry(c, key)
    THEN LET cached == EntryOf(c, key)
             age == t - cached.timestamp
         IN IF age < CACHE_TTL_MS
            THEN [hit |-> TRUE, data |-> cached.data, cache |-> CacheSet(c, key, cached.data, t)]
            ELSE [hit |-> FALSE, data |-> NoResponse, cache |-> CacheDelete(c, key)]
    ELSE [hit |-> FALSE, data |-> NoResponse, cache |-> c]

\* the cache check of both handlers, at time t: hit says the entry is served
\* (age < CACHE_TTL_MS), cache is the map after the check (an entry that is
\* not served is deleted)
CacheCheck(c, key, t) ==
    IF HasEntry(c, key)
    THEN LET cached == EntryOf(c, key)
             age == t - cached.timestamp
         IN IF age < CACHE_TTL_MS
            THEN [hit |-> TRUE, data |-> cached.data, cache |-> c]
            ELSE [hit |-> FALSE, data |-> NoResponse, cache |-> CacheDelete(c, key)]
    ELSE [hit |-> FALSE, data |-> NoResponse, cache |-> c]

-----------------------------------------------------------------------------
(* Provider calls                                                          *)

\* The request parameters of a call: the values a handler puts into the
\* templates of contents / prompt and of systemInstruction, the schema and
\* the temperature (in tenths; 0 when the call has none). The single calls
\* of the other handlers are kept without their parameters.
Params(contents, systemInstruction, responseMimeType, responseSchema, temperature) ==
    [contents |-> contents, systemInstruction |-> systemInstruction,
     responseMimeType |-> responseMimeType, responseSchema |-> responseSchema,
     temperature |-> temperature]

NoParams == Params(<<>>, <<>>, "", <<>>, 0)

\* One outbound call, as the log of a request keeps it: state is "pending"
\* until the call settles, then "ok" (with result) or "failed" (with error).
Call(tier, model) ==
    [tier |-> tier, model |-> model, state |-> "pending", result |-> NoResult, error |-> NoError,
     params |-> NoParams]

\* a call of generateWithFallback, with the request parameters it sends
CallWith(tier, model, params) == [Call(tier, model) EXCEPT !.params = params]

\* How a call settles.
Ok(result) == [ok |-> TRUE, result |-> result, error |-> NoError]
Failed(error) == [ok |-> FALSE, result |-> NoResult, error |-> error]

\* the log with its last (pending) call settled by out; a failure is an
\* error object created by that call
Settle(log, out) ==
    LET n == Len(log)
        call == log[n]
    IN [log EXCEPT ![n] = [call EXCEPT !.state = IF out.ok THEN "ok" ELSE "failed",
                                       !.result = out.result,
                                       !.error = IF out.ok THEN NoError
                                                 ELSE RaisedBy(out.error, call.tier)]]

\* the error object a failed call threw
Thrown(log) == log[Len(log)].error

-----------------------------------------------------------------------------
(* generateWithFallback                                                    *)

\* What the chain does at a step: "await" a new call (geminiError is the
\* error its catch block holds meanwhile), "return" or "throw".
ChainAwait(nextPc, call, gErr) ==
    [kind |-> "await", pc |-> nextPc, call |-> call, geminiError |-> gErr]

ChainReturn(result, provider) ==
    [kind |-> "return", provider |-> provider, result |-> result, error |-> NoError,
     geminiError |-> NoError]

ChainThrow(error) ==
    [kind |-> "throw", provider |-> "none", result |-> NoResult, error |-> error,
     geminiError |-> NoError]

NoChain == [ChainThrow(NoError) EXCEPT !.kind = "none"]

CommaSpace == <<",", " ">>

\* const userPrompt = `Generate ${count} smart tags for a prompt about "${topic}". ...`
UserPrompt(b) == <<TagCount, b.topic, b.persona, b.intent>>

\* const systemInstruction = `... existing tags: ${existingTags.join(', ')} ... ${count} tags ...`
SystemInstruction(b) == <<Join(ExistingTags(b), CommaSpace), TagCount>>

\* the arguments geminiParams and openAiParams of generateWithFallback
ChainArgs(b) ==
    [geminiParams |-> Params(UserPrompt(b), SystemInstruction(b), "application/json",
                             GroupNames, 7),
     openAiParams |-> Params(UserPrompt(b), SystemInstruction(b), "", <<>>, 0)]

\* 1. Try Gemini Primary: generateContent({ model: geminiModelName, ...geminiParams })
ChainStart(args) ==
    ChainAwait("awaitPrimary", CallWith("primary", GeminiPrimaryModel, args.geminiParams),
               NoError)

\* ChainTryOpenAI without the OpenAI call
ChainSkipOpenAI(gErr, openaiConfigured, args) == ChainThrow(gErr)

\* 3. Try OpenAI: catch (geminiError) { if (openai) {...} throw geminiError }
ChainTryOpenAI(gErr, openaiConfigured, args) ==
    IF openaiConfigured
    THEN ChainAwait("awaitOpenAI", CallWith("openai", OpenAIModel, args.openAiParams), gErr)
    ELSE ChainThrow(gErr)

\* ChainOnPrimaryError that calls the lighter model with a lower temperature
ChainOnPrimaryErrorCooler(error, openaiConfigured, args) ==
    IF IsRetryable(error)
    THEN ChainAwait("awaitLite",
                    CallWith("lite", GeminiLiteModel,
                             [args.geminiParams EXCEPT !.temperature = 3]),
                    NoError)
    ELSE ChainTryOpenAI(error, openaiConfigured, args)

\* catch (error) of the primary call: 2. Try Gemini Fallback (Lite), or
\* throw error into the catch that tries OpenAI
ChainOnPrimaryError(error, openaiConfigured, args) ==
    IF IsRetryable(error)
    THEN ChainAwait("awaitLite", CallWith("lite", GeminiLiteModel, args.geminiParams), NoError)
    ELSE ChainTryOpenAI(error, openaiConfigured, args)

\* ChainOnPrimary without the return on success
ChainOnPrimaryNoReturn(out, error, openaiConfigured, args) ==
    ChainOnPrimaryError(error, openaiConfigured, args)

\* the primary call settled
ChainOnPrimary(out, error, openaiConfigured, args) ==
    IF out.ok THEN ChainReturn(out.result, "gemini")
    ELSE ChainOnPrimaryError(error, openaiConfigured, args)

\* ChainOnLite that calls the lite model again when it failed
ChainOnLiteRetry(out, error, openaiConfigured, args) ==
    IF out.ok THEN ChainReturn(out.result, "gemini")
    ELSE ChainAwait("awaitLite", CallWith("lite", GeminiLiteModel, args.geminiParams), NoError)

\* the lite call settled: its error is the geminiError of the outer catch
ChainOnLite(out, error, openaiConfigured, args) ==
    IF out.ok THEN ChainReturn(out.result, "gemini")
    ELSE ChainTryOpenAI(error, openaiConfigured, args)

\* generateWithOpenAI: it returns JSON.parse(content) and throws when the
\* call fails, when content is empty and when content is no JSON
OpenAIReturnsJson(out) == out.ok /\ out.result.text # TextEmpty /\ IsJson(out.result.text)

\* the OpenAI call settled: its own error is only logged, and the chain
\* throws the geminiError it held
ChainOnOpenAI(out, gErr) ==
    IF OpenAIReturnsJson(out)
    THEN ChainReturn(ValueResult(out.result.text), "openai")
    ELSE ChainThrow(gErr)

-----------------------------------------------------------------------------
(* The handlers, as functions from what a step sees to what it does        *)

\* What a step of a handler does: the new position, the response it sends
\* (a sequence of at most one), the cache it leaves, the chain's step.
Step(nextPc, resp, c, chain) == [pc |-> nextPc, resp |-> resp, cache |-> c, chain |-> chain]

\* GenerateCatch that empties the cache
GenerateCatchClears(error, c, chain) == Step("done", <<StaticTags(MessageOf(error))>>, {}, chain)

\* catch (error) of /generate
GenerateCatch(error, c, chain) == Step("done", <<StaticTags(MessageOf(error))>>, c, chain)

\* 7. Parse Response: const responseText = result.text; if (!responseText)
\* throw ...; JSON.parse(responseText). A method is truthy and no JSON.
\* Does it throw, with what, and what it gives.
ParseThrows(apiResult) ==
    /\ apiResult.provider = "gemini"
    /\ \/ apiResult.result.shape # "getter"
       \/ apiResult.result.text = TextEmpty
       \/ ~IsJson(apiResult.result.text)

ParseError(apiResult) ==
    IF apiResult.result.shape = "getter" /\ apiResult.result.text = TextEmpty
    THEN ErrNoText ELSE ErrJson

Parsed(apiResult) == JsonParse(apiResult.result.text)

\* GenerateFinish that asks OpenAI when the text of Gemini cannot be parsed
GenerateFinishAsksOpenAI(b, apiResult, c, t) ==
    IF ParseThrows(apiResult)
    THEN Step("awaitOpenAI", <<>>, c,
              ChainAwait("awaitOpenAI", Call("openai", OpenAIModel), NoError))
    ELSE IF GroupsThrow(Parsed(apiResult))
    THEN GenerateCatch(RaisedBy(GroupsError(Parsed(apiResult)), "handler"), c, apiResult)
    ELSE LET groups == Groups(Parsed(apiResult))
             finalTags == FinalTags(AllTags(groups), ExistingTags(b))
             responseData == FreshTags(groups, finalTags)
         IN Step("done", <<responseData>>, CacheSet(c, GenerateKey(b), responseData, t), apiResult)

\* from 7. Parse Response to res.json(responseData), at time t
GenerateFinish(b, apiResult, c, t) ==
    IF ParseThrows(apiResult)
    THEN GenerateCatch(RaisedBy(ParseError(apiResult), "handler"), c, apiResult)
    ELSE IF GroupsThrow(Parsed(apiResult))
    THEN GenerateCatch(RaisedBy(GroupsError(Parsed(apiResult)), "handler"), c, apiResult)
    ELSE LET groups == Groups(Parsed(apiResult))
             finalTags == FinalTags(AllTags(groups), ExistingTags(b))
             responseData == FreshTags(groups, finalTags)
         IN Step("done", <<responseData>>, CacheSet(c, GenerateKey(b), responseData, t), apiResult)

\* GenerateAfterChain that answers with the entry another request has
\* written to the cache while this one was waiting
GenerateAfterChainShared(b, chain, c, t) ==
    IF chain.kind = "await" THEN Step(chain.pc, <<>>, c, chain)
    ELSE IF HasEntry(c, GenerateKey(b))
    THEN Step("done", <<EntryOf(c, GenerateKey(b)).data>>, c, chain)
    ELSE IF chain.kind = "return" THEN GenerateFinish(b, chain, c, t)
    ELSE GenerateCatch(chain.error, c, chain)

\* the handler around a step of the chain
GenerateAfterChain(b, chain, c, t) ==
    IF chain.kind = "await" THEN Step(chain.pc, <<>>, c, chain)
    ELSE IF chain.kind = "return" THEN GenerateFinish(b, chain, c, t)
    ELSE GenerateCatch(chain.error, c, chain)

\* GenerateStart that goes on to the chain without a Gemini client
GenerateStartWithoutClient(b, c, t, genAIConfigured) ==
    IF MissingFields(b) THEN Step("done", <<BadRequest>>, c, NoChain)
    ELSE LET check == CacheCheck(c, GenerateKey(b), t)
         IN IF check.hit THEN Step("done", <<check.data>>, check.cache, NoChain)
            ELSE IF ExistingTagsThrows(b)
            THEN GenerateCatch(RaisedBy(ErrNotIterable, "handler"), check.cache, NoChain)
            ELSE GenerateAfterChain(b, ChainStart(ChainArgs(b)), check.cache, t)

\* router.post('/generate'), up to its first await
GenerateStart(b, c, t, genAIConfigured) ==
    IF MissingFields(b) THEN Step("done", <<BadRequest>>, c, NoChain)
    ELSE LET check == CacheCheck(c, GenerateKey(b), t)
         IN IF check.hit THEN Step("done", <<check.data>>, check.cache, NoChain)
            ELSE IF ~genAIConfigured
            THEN Step("done", <<StaticTags(MsgNotConfigured)>>, check.cache, NoChain)
            ELSE IF ExistingTagsThrows(b)
            THEN GenerateCatch(RaisedBy(ErrNotIterable, "handler"), check.cache, NoChain)
            ELSE GenerateAfterChain(b, ChainStart(ChainArgs(b)), check.cache, t)

\* catch (error) of /output-suggestions
OutputCatch(error, c, chain) == Step("done", <<StaticOutput(MessageOf(error))>>, c, chain)

\* (parsed.suggestions || []).filter(validateSuggestion).map(clean)
\*     .filter(s => !existingOutputs.includes(s)); fill from FALLBACK_OUTPUT; slice(0, 3)
Suggestions(parsed, existingOutputs) ==
    LET valid == validateTags(parsed.suggestions)
    IN FillToQuota(SelectSeq(valid, LAMBDA s : ~Contains(existingOutputs, s)),
                   existingOutputs, FALLBACK_OUTPUT, SuggestionCount)

\* a null payload has no property to read; replace is no method of a non-string
SuggestionsThrow(parsed) == parsed.kind = "null" \/ HasNotString(parsed.suggestions)

\* the Gemini call of /output-suggestions settled (error is what it threw):
\* from 7. Parse Response to res.json(responseData), at time t
OutputFinish(b, out, error, c, t) ==
    LET chain == IF out.ok THEN ChainReturn(out.result, "gemini") ELSE ChainThrow(error)
    IN IF ~out.ok THEN OutputCatch(error, c, chain)
       ELSE IF ParseThrows(chain)
       THEN OutputCatch(RaisedBy(ParseError(chain), "handler"), c, chain)
       ELSE IF SuggestionsThrow(Parsed(chain))
       THEN OutputCatch(RaisedBy(GroupsError(Parsed(chain)), "handler"), c, chain)
       ELSE LET responseData == FreshOutput(Suggestions(Parsed(chain), ExistingOutputs(b)))
            IN Step("done", <<responseData>>, CacheSet(c, OutputKey(b), responseData, t), chain)

\* the promise of an async handler rejects: the handler sends nothing. What
\* follows depends on the Express the build installs, which the repository
\* does not pin down: Express 5 forwards the rejection to its error handler,
\* Express 4 ignores the promise and the request stays unanswered.
Rejects(c, forwarded) ==
    IF forwarded THEN Step("done", <<ExpressError>>, c, NoChain)
    ELSE Step("rejected", <<>>, c, NoChain)

\* router.post('/output-suggestions'), up to its first await. Building the
\* cache key is outside the try block.
OutputStart(b, c, t, genAIConfigured, forwarded) ==
    IF MissingFields(b) THEN Step("done", <<BadRequest>>, c, NoChain)
    ELSE IF OutputKeyThrows(b) THEN Rejects(c, forwarded)
    ELSE LET check == CacheCheck(c, OutputKey(b), t)
         IN IF check.hit THEN Step("done", <<check.data>>, check.cache, NoChain)
            ELSE IF ~genAIConfigured
            THEN Step("done", <<StaticOutput(MsgNotConfigured)>>, check.cache, NoChain)
            ELSE IF ExistingOutputsThrows(b)
            THEN OutputCatch(RaisedBy(ErrNotIterable, "handler"), check.cache, NoChain)
            ELSE Step("awaitGemini", <<>>, check.cache,
                      ChainAwait("awaitGemini", Call("output", GeminiOutputModel), NoError))

-----------------------------------------------------------------------------
(* The first variant of /generate (no cache, no chain)                     *)

\* res.json({ success: false, tags: [], fallback: true, message })
V1Failure(message) ==
    Response(200, {"success", "tags", "fallback", "message"}, FALSE,
             <<>>, NoGroups, <<>>, TRUE, message)

\* res.json({ success: true, tags: finalTags, fallback: false })
V1Success(finalTags) ==
    Response(200, {"success", "tags", "fallback"}, TRUE, finalTags, NoGroups, <<>>, FALSE, "")

V1Catch(error, c, chain) == Step("done", <<V1Failure(MessageOf(error))>>, c, chain)

\* const count = stage === 1 ? 3 : 5
V1Count(b) == IF b.stage = 1 THEN 3 ELSE 5

\* (result as any).text?.() ?? (result as any).text ?? '' and JSON.parse of
\* it. The optional call throws a TypeError when text is a string (a getter
\* that gives one); an absent text gives '' and a method that returns
\* nothing gives the method itself, and JSON.parse throws on both.
V1TextThrows(result) == result.shape = "getter" /\ result.text # TextEmpty

V1ParseThrows(result) ==
    V1TextThrows(result) \/ result.text = TextEmpty \/ ~IsJson(result.text)

V1ParseError(result) == IF V1TextThrows(result) THEN ErrTextNotFn ELSE ErrJson

\* the filter of the first variant: tag.trim().split(/\s+/), 3 to 4 words,
\* the tag itself is kept
V1ValidChars(cs) ==
    LET words == SplitWs(Trim(cs))
        wordCount == Len(words)
    IN ~(wordCount < 3 \/ wordCount > 4)

V1ValidTable == [s \in TagStrings |-> V1ValidChars(Chars(s))]

V1WordCountOk(tag) == V1ValidTable[tag]

\* let generatedTags = data.tags || []; generatedTags.filter(...)
V1Filter(data) ==
    IF data.tags.kind # "array" THEN <<>>
    ELSE SelectSeq(Strings(data.tags.items), V1WordCountOk)

V1FilterThrows(data) == data.kind = "null" \/ HasNotString(data.tags)

\* the Gemini call of the first variant settled
V1Finish(b, out, error, c) ==
    LET chain == IF out.ok THEN ChainReturn(out.result, "gemini") ELSE ChainThrow(error)
    IN IF ~out.ok THEN V1Catch(error, c, chain)
       ELSE IF V1ParseThrows(out.result)
       THEN V1Catch(RaisedBy(V1ParseError(out.result), "handler"), c, chain)
       ELSE IF V1FilterThrows(JsonParse(out.result.text))
       THEN V1Catch(RaisedBy(IF JsonParse(out.result.text).kind = "null" THEN ErrNullParsed
                             ELSE ErrNotStringTrim, "handler"), c, chain)
       ELSE LET generatedTags == V1Filter(JsonParse(out.result.text))
            IN IF Len(generatedTags) = 0
               THEN V1Catch(RaisedBy(ErrNoValidTags, "handler"), c, chain)
               ELSE Step("done", <<V1Success(Slice(generatedTags, V1Count(b)))>>, c, chain)

\* the first variant of router.post('/generate'), up to its await
V1Start(b, c, genAIConfigured) ==
    IF MissingFields(b) THEN Step("done", <<BadRequest>>, c, NoChain)
    ELSE IF ~genAIConfigured
    THEN Step("done", <<V1Failure(MsgNotConfigured)>>, c, NoChain)
    ELSE IF ExistingTagsThrows(b)
    THEN V1Catch(RaisedBy(ErrNotIterable, "handler"), c, NoChain)
    ELSE Step("awaitGemini", <<>>, c,
              ChainAwait("awaitGemini", Call("v1", GeminiPrimaryModel), NoError))

-----------------------------------------------------------------------------
(* router.post('/analyze') of the Gemini routes (src/unnamed/part_001)     *)

\* A JSON value of a request body or of a provider payload: v is the string
\* of kind "string", the items of kind "array", the number of kind "number".
JUndef == [kind |-> "undefined", v |-> ""]
JNull == [kind |-> "null", v |-> ""]
JStr(s) == [kind |-> "string", v |-> s]
JNum(n) == [kind |-> "number", v |-> n]
JArr(items) == [kind |-> "array", v |-> items]

\* !x is false
Truthy(x) ==
    \/ x.kind = "array"
    \/ x.kind = "string" /\ x.v # ""
    \/ x.kind = "number" /\ x.v # 0

\* a || b
OrElse(a, b) == IF Truthy(a) THEN a ELSE b

\* req.body of /analyze
AnalyzeReqBody(studentPrompt) ==
    [topic |-> "", intent |-> "", persona |-> "", stage |-> 0,
     selectedTags |-> Undef, visibleTags |-> Undef,
     selectedSmartTags |-> Undef, selectedOutputTags |-> Undef,
     studentPrompt |-> studentPrompt]

PromptPlain == "Explain photosynthesis"
PromptPadded == " Explain photosynthesis "
PromptBlank == "   "

\* !studentPrompt || typeof studentPrompt !== 'string' || studentPrompt.trim() === ''
AnalyzeInvalid(studentPrompt) ==
    \/ ~Truthy(studentPrompt)
    \/ studentPrompt.kind # "string"
    \/ Trim(Chars(studentPrompt.v)) = <<>>

\* the improvedPrompt of a payload: kind "object" with its properties, or
\* kind "undefined", "null" or "string" (a value that has none of them)
ImprovedPrompt(role, context, task, exemplars, persona, format, tone) ==
    [kind |-> "object", role |-> role, context |-> context, task |-> task,
     exemplars |-> exemplars, persona |-> persona, format |-> format, tone |-> tone]

NoImprovedPrompt(kind) ==
    [ImprovedPrompt(JUndef, JUndef, JUndef, JUndef, JUndef, JUndef, JUndef) EXCEPT !.kind = kind]

\* a parsed payload of /analyze: kind "null" is the JSON value null
Analysis(score, feedback, improvedPrompt) ==
    [kind |-> "object", score |-> score, feedback |-> feedback,
     improvedPrompt |-> improvedPrompt]

NullAnalysis == [Analysis(JUndef, JUndef, NoImprovedPrompt("undefined")) EXCEPT !.kind = "null"]

FeedbackText == "Add more context"
RoleText == "Teacher"
TaskText == "Generate Practice Questions"

\* every property present
AnalysisFull ==
    Analysis(JNum(80), JStr(FeedbackText),
             ImprovedPrompt(JStr(RoleText), JStr(TopicCells), JStr(TaskText),
                            JArr(<<TagQuiz>>), JStr(PersonaStudent), JStr(TagTable),
                            JStr(TagFriendly)))

\* the required task alone
AnalysisTaskOnly ==
    Analysis(JNum(40), JStr(FeedbackText),
             ImprovedPrompt(JUndef, JUndef, JStr(TaskText), JUndef, JUndef, JUndef, JUndef))

\* no task; a null, an empty string and an empty list among the others
AnalysisNoTask ==
    Analysis(JNum(0), JStr(""),
             ImprovedPrompt(JStr(RoleText), JNull, JUndef, JArr(<<>>), JStr(""), JUndef,
                            JStr(TagFriendly)))

\* no improvedPrompt at all
AnalysisNoImproved == Analysis(JNum(55), JStr(FeedbackText), NoImprovedPrompt("undefined"))

\* improvedPrompt is a string
AnalysisTextImproved == Analysis(JNum(55), JUndef, NoImprovedPrompt("string"))

TextFull == "{full}"
TextFullPadded == " {full} "
TextTaskOnly == "{taskOnly}"
TextNoTask == "{noTask}"
TextNoImproved == "{noImproved}"
TextTextImproved == "{textImproved}"
TextBlank == "   "

\* JSON.parse of the texts /analyze is answered with
AnalyzeJsonTable ==
    (TextFull :> AnalysisFull) @@ (TextTaskOnly :> AnalysisTaskOnly)
    @@ (TextNoTask :> AnalysisNoTask) @@ (TextNoImproved :> AnalysisNoImproved)
    @@ (TextTextImproved :> AnalysisTextImproved) @@ (TextNull :> NullAnalysis)

\* const jsonText = (rawText || '').trim()
JsonText(result) == FromChars(Trim(Chars(result.text)))

\* errors the provider of /analyze throws
EApiKey == MkErr("ApiError", 400, "", "API key not valid")
E403 == MkErr("ApiError", 403, "", "Forbidden")
E503Model == MkErr("ApiError", 503, "", "The model is overloaded")
ETimedOut == MkErr("Error", 0, "ETIMEDOUT", "connect ETIMEDOUT")
ENotFound == MkErr("Error", 0, "ENOTFOUND", "getaddrinfo ENOTFOUND")

\* errors the handler creates
ErrEmptyResponse == MkErr("Error", 0, "", "Empty response from Gemini API")
ErrParseFailed ==
    MkErr("Error", 0, "",
          "Failed to parse Gemini response as JSON: Unexpected token S in JSON at position 0")

MsgApiKey == "API key"
Msg401 == "401"
Msg429 == "429"
MsgModel == "model"
MsgPermission == "permission"
NetworkCodes == {"ECONNREFUSED", "ETIMEDOUT", "ENOTFOUND"}

\* the status the catch block of /analyze answers an error with
AnalyzeStatus(error) ==
    IF \/ StrIncludes(error.message, MsgApiKey)
       \/ StrIncludes(error.message, Msg401)
       \/ error.status = 401
    THEN 401
    ELSE IF \/ StrIncludes(error.message, MsgQuota)
            \/ StrIncludes(error.message, MsgRateLimit)
            \/ StrIncludes(error.message, Msg429)
            \/ error.status = 429
    THEN 429
    ELSE IF \/ StrIncludes(error.message, MsgModel)
            \/ StrIncludes(error.message, MsgPermission)
            \/ error.status = 403
    THEN 403
    ELSE IF error.code \in NetworkCodes
    THEN 503
    ELSE 500

NoOutput == Analysis(JUndef, JUndef, NoImprovedPrompt("undefined"))

\* a response of /analyze: with status 200 the payload is output, with any
\* other status it is { error } (its text, and the details a development
\* build adds to it, are left out)
AnalyzeResponse(status, keys, output) ==
    [status |-> status, keys |-> keys, success |-> FALSE, tags |-> <<>>,
     groups |-> NoGroups, suggestions |-> <<>>, fallback |-> FALSE, message |-> "",
     output |-> output]

AnalyzeFailure(status) == AnalyzeResponse(status, {"error"}, NoOutput)

\* const improvedPrompt = parsedResponse.improvedPrompt || {}; a property of
\* {} and of a string is undefined
ImprovedOf(parsed) ==
    IF parsed.improvedPrompt.kind = "object" THEN parsed.improvedPrompt
    ELSE NoImprovedPrompt("object")

\* AnalyzeOutput that takes the task as the provider gave it
AnalyzeOutputTaskAsGiven(parsed, studentPrompt) ==
    LET improvedPrompt == ImprovedOf(parsed)
    IN Analysis(parsed.score, parsed.feedback,
                ImprovedPrompt(OrElse(improvedPrompt.role, JNull),
                               OrElse(improvedPrompt.context, JNull),
                               improvedPrompt.task,
                               OrElse(improvedPrompt.exemplars, JNull),
                               OrElse(improvedPrompt.persona, JNull),
                               OrElse(improvedPrompt.format, JNull),
                               OrElse(improvedPrompt.tone, JNull)))

\* const output = { ...parsedResponse, improvedPrompt: { role: improvedPrompt.role || null, ... } }
AnalyzeOutput(parsed, studentPrompt) ==
    LET improvedPrompt == ImprovedOf(parsed)
    IN Analysis(parsed.score, parsed.feedback,
                ImprovedPrompt(OrElse(improvedPrompt.role, JNull),
                               OrElse(improvedPrompt.context, JNull),
                               OrElse(improvedPrompt.task, studentPrompt),
                               OrElse(improvedPrompt.exemplars, JNull),
                               OrElse(improvedPrompt.persona, JNull),
                               OrElse(improvedPrompt.format, JNull),
                               OrElse(improvedPrompt.tone, JNull)))

\* the properties of output: those of parsedResponse, and improvedPrompt
OutputKeys(parsed) ==
    {k \in {"score", "feedback"} : parsed[k].kind # "undefined"} \cup {"improvedPrompt"}

\* catch (error) of /analyze
AnalyzeCatch(error, c, chain) ==
    Step("done", <<AnalyzeFailure(AnalyzeStatus(error))>>, c, chain)

\* the Gemini call of /analyze settled: from the text of the answer to
\* res.json(output)
AnalyzeFinish(b, out, error, c) ==
    LET chain == IF out.ok THEN ChainReturn(out.result, "gemini") ELSE ChainThrow(error)
    IN IF ~out.ok THEN AnalyzeCatch(error, c, chain)
       ELSE IF JsonText(out.result) = ""
       THEN AnalyzeCatch(RaisedBy(ErrEmptyResponse, "handler"), c, chain)
       ELSE IF JsonText(out.result) \notin DOMAIN AnalyzeJsonTable
       THEN AnalyzeCatch(RaisedBy(ErrParseFailed, "handler"), c, chain)
       ELSE LET parsedResponse == AnalyzeJsonTable[JsonText(out.result)]
            IN IF parsedResponse.kind = "null"
               THEN AnalyzeCatch(RaisedBy(ErrNullParsed, "handler"), c, chain)
               ELSE Step("done",
                         <<AnalyzeResponse(200, OutputKeys(parsedResponse),
                                           AnalyzeOutput(parsedResponse, b.studentPrompt))>>,
                         c, chain)

\* router.post('/analyze'), up to its await
AnalyzeStart(b, c, genAIConfigured) ==
    IF AnalyzeInvalid(b.studentPrompt) THEN Step("done", <<AnalyzeFailure(400)>>, c, NoChain)
    ELSE IF ~genAIConfigured THEN Step("done", <<AnalyzeFailure(500)>>, c, NoChain)
    ELSE Step("awaitGemini", <<>>, c,
              ChainAwait("awaitGemini", Call("analyze", GeminiPrimaryModel), NoError))

-----------------------------------------------------------------------------
(* The inputs of the model                                                 *)

Outcomes(results, errors) == {Ok(x) : x \in results} \cup {Failed(e) : e \in errors}

\* The clock advances by one millisecond less than the TTL, then by one
\* millisecond, and so on: an entry is read at the ages TTL - 1 and TTL.
TickStep(n) == IF n % 2 = 0 THEN CACHE_TTL_MS - 1 ELSE 1

\* Spec: concurrent requests to the two routes that share the cache
GenerateBodies == {BodyPlain, BodySelected, BodyNoTopic}
OutputBodies == {BodyPlain, BodyNullLists}
PrimaryOutcomes == Outcomes({Result(TextGood), Result(TextInvalid)}, {E429, E500})
LiteOutcomes == Outcomes({Result(TextGood)}, {E500})
OpenAIOutcomes == Outcomes({Result(TextGood)}, {E500})
OutputOutcomes == Outcomes({Result(TextGood)}, {E500})

\* SpecChain: one /generate request, with every kind of provider answer
GeminiResults ==
    {Result(TextGood), Result(TextNoValid), Result(TextNotString), Result(TextMany),
     Result(TextNull), Result(TextInvalid), Result(TextEmpty)}
OpenAIResults == {Result(TextGood), Result(TextMany), Result(TextInvalid), Result(TextEmpty)}
ProviderErrors ==
    {E429, E503, EQuotaMsg, ERateMsg, EOverMsg, EQuotaCap, E401, E401Quota, E500, ENet}
LaterErrors == {E429, E500, EQuotaMsg}
ChainBodies == {BodyPlain, BodySelected, BodyNoTopic, BodyNullLists}
ChainPrimaryOutcomes == Outcomes(GeminiResults, ProviderErrors)
ChainLiteOutcomes == Outcomes(GeminiResults, LaterErrors)
ChainOpenAIOutcomes == Outcomes(OpenAIResults, LaterErrors)

\* SpecOutput: one request to /output-suggestions
AllOutputBodies == {BodyPlain, BodySelected, BodyAtoms, BodyNoTopic, BodyNullLists}
AllOutputOutcomes == Outcomes(GeminiResults, ProviderErrors)

\* SpecV1: one request to the first variant of /generate
V1Bodies == {BodyPlain, BodySelected, BodyAtoms, BodyNoTopic, BodyNullLists}
V1Outcomes ==
    Outcomes({Result(TextGood), Result(TextEmpty)}
             \cup {MethodResult(x.text) : x \in GeminiResults}, ProviderErrors)

\* SpecAnalyze: one request to /analyze
AnalyzeBodies ==
    {AnalyzeReqBody(p) : p \in {JStr(PromptPlain), JStr(PromptPadded), JStr(PromptBlank),
                                JStr(""), JUndef, JNull, JNum(5), JArr(<<PromptPlain>>)}}
AnalyzeResults ==
    {Result(TextFull), Result(TextFullPadded), Result(TextTaskOnly), Result(TextNoTask),
     Result(TextNoImproved), Result(TextTextImproved), Result(TextNull), Result(TextInvalid),
     Result(TextEmpty), Result(TextBlank)}
AnalyzeErrors ==
    {E401, EApiKey, E429, EQuotaMsg, EQuotaCap, E403, E503, E503Model, EOverMsg, E500,
     ENet, ETimedOut, ENotFound}
AnalyzeOutcomes == Outcomes(AnalyzeResults, AnalyzeErrors)

\* SpecRoutes: concurrent requests to the four handlers
RoutesBodies == {BodyPlain, BodyNoTopic, BodyNoPersona}
RoutesAnalyzeBodies ==
    {AnalyzeReqBody(p) : p \in {JStr(PromptPlain), JStr(PromptBlank), JUndef, JNum(5)}}
RoutesPrimaryOutcomes == Outcomes({Result(TextGood)}, {E429, E500})
RoutesLaterOutcomes == Outcomes({Result(TextGood)}, {E500})
RoutesAnalyzeOutcomes == Outcomes({Result(TextFull)}, {E500})
\* SpecKeys: concurrent requests whose field values hold the separator
KeysGenerateBodies == {BodyPlain, BodyColonTopic, BodyColonIntent, BodyTopicOutput}
KeysOutputBodies == {BodyPlain, BodyOutputSeven}
KeysPrimaryOutcomes == Outcomes({Result(TextGood)}, {E500})
KeysOutputOutcomes == Outcomes({Result(TextGood)}, {E500})

-----------------------------------------------------------------------------
(* The state machine                                                       *)

\* genAI, openai : whether the client was built (the key is in the environment)
\* now           : Date.now();  ticks counts the advances of the clock
\* cache         : the entries of the Map
\* pc[r]         : "idle", "awaitPrimary", "awaitLite", "awaitOpenAI",
\*                 "awaitGemini", "done", or "rejected" (the handler threw)
\* ep[r]         : the handler serving r: "generate", "output", "generateV1",
\*                 "analyze"
\* body[r]       : req.body
\* lookup[r]     : what cache.get(cacheKey) gave the handler: "none" (no
\*                 lookup), "miss" (undefined), "hit" or "expired" (an entry)
\* calls[r]      : the provider calls made for r, in order
\* geminiError[r]: the geminiError the chain holds while OpenAI is called
\* chainOut[r]   : what generateWithFallback (or the single call) gave
\* responses[r]  : the responses sent for r

TypeOK ==
    /\ genAI \in BOOLEAN /\ openai \in BOOLEAN
    /\ now \in Nat /\ ticks \in 0..MaxTicks
    /\ \A r \in Reqs :
        /\ pc[r] \in {"idle", "awaitPrimary", "awaitLite", "awaitOpenAI", "awaitGemini", "done", "rejected"}
        /\ ep[r] \in {"none", "generate", "output", "generateV1", "analyze"}
        /\ lookup[r] \in {"none", "miss", "hit", "expired"}
        /\ Len(responses[r]) \in 0..1

Init ==
    /\ genAI \in BOOLEAN
    /\ openai \in BOOLEAN
    /\ now = 0
    /\ ticks = 0
    /\ cache = {}
    /\ pc = [r \in Reqs |-> "idle"]
    /\ ep = [r \in Reqs |-> "none"]
    /\ body = [r \in Reqs |-> NoBody]
    /\ lookup = [r \in Reqs |-> "none"]
    /\ calls = [r \in Reqs |-> <<>>]
    /\ geminiError = [r \in Reqs |-> NoError]
    /\ chainOut = [r \in Reqs |-> NoChain]
    /\ responses = [r \in Reqs |-> <<>>]

\* the effect of a step of request r on the state; log is the call log of r
\* with the call that settled in this step, if any
Apply(r, log, step) ==
    /\ pc' = [pc EXCEPT ![r] = step.pc]
    /\ responses' = [responses EXCEPT ![r] = @ \o step.resp]
    /\ cache' = step.cache
    /\ calls' = [calls EXCEPT ![r] =
                    IF step.chain.kind = "await" THEN Append(log, step.chain.call) ELSE log]
    /\ geminiError' = [geminiError EXCEPT ![r] = step.chain.geminiError]
    /\ chainOut' = [chainOut EXCEPT ![r] = IF step.chain.kind = "await" THEN @ ELSE step.chain]
    /\ UNCHANGED <<genAI, openai, now, ticks>>

\* const cached = cache.get(cacheKey), and the age of what it gave: what the
\* handler of endpoint finds for body b in cache c at time t
CacheGet(endpoint, b, c, t) ==
    IF endpoint = "generateV1" \/ endpoint = "analyze" \/ MissingFields(b) THEN "none"
    ELSE IF endpoint = "output" /\ OutputKeyThrows(b) THEN "none"
    ELSE LET key == IF endpoint = "generate" THEN GenerateKey(b) ELSE OutputKey(b)
         IN IF ~HasEntry(c, key) THEN "miss"
            ELSE IF CacheCheck(c, key, t).hit THEN "hit" ELSE "expired"

\* a request reaches a handler, which runs up to its first await (requests
\* are numbered in the order they arrive)
Arrive(r, endpoint, b, step) ==
    /\ pc[r] = "idle"
    /\ \A q \in Reqs : q < r => pc[q] # "idle"
    /\ ep' = [ep EXCEPT ![r] = endpoint]
    /\ body' = [body EXCEPT ![r] = b]
    /\ lookup' = [lookup EXCEPT ![r] = CacheGet(endpoint, b, cache, now)]
    /\ Apply(r, calls[r], step)

\* POST /generate
GenerateArrive(r, b) == Arrive(r, "generate", b, GenerateStart(b, cache, now, genAI))

\* POST /output-suggestions
OutputArrive(r, b) ==
    \E forwarded \in BOOLEAN :
        Arrive(r, "output", b, OutputStart(b, cache, now, genAI, forwarded))

\* POST /generate of the first variant
V1Arrive(r, b) == Arrive(r, "generateV1", b, V1Start(b, cache, genAI))

\* POST /analyze
AnalyzeArrive(r, b) == Arrive(r, "analyze", b, AnalyzeStart(b, cache, genAI))

\* the call r awaits settles, and the code after the await runs
Settles(r, at, endpoint, out, step) ==
    /\ pc[r] = at
    /\ ep[r] = endpoint
    /\ Apply(r, Settle(calls[r], out), step)
    /\ UNCHANGED <<ep, body, lookup>>

\* await genAI.models.generateContent({ model: geminiModelName, ... }) settles
PrimaryReturns(r, out) ==
    Settles(r, "awaitPrimary", "generate", out,
            GenerateAfterChain(body[r],
                ChainOnPrimary(out, Thrown(Settle(calls[r], out)), openai,
                               ChainArgs(body[r])),
                cache, now))

\* await genAI.models.generateContent({ model: geminiFallbackModelName, ... }) settles
LiteReturns(r, out) ==
    Settles(r, "awaitLite", "generate", out,
            GenerateAfterChain(body[r],
                ChainOnLite(out, Thrown(Settle(calls[r], out)), openai, ChainArgs(body[r])),
                cache, now))

\* await generateWithOpenAI(...) settles
OpenAIReturns(r, out) ==
    Settles(r, "awaitOpenAI", "generate", out,
            GenerateAfterChain(body[r], ChainOnOpenAI(out, geminiError[r]), cache, now))

\* the Gemini call of /output-suggestions settles
OutputReturns(r, out) ==
    Settles(r, "awaitGemini", "output", out,
            OutputFinish(body[r], out, Thrown(Settle(calls[r], out)), cache, now))

\* the Gemini call of the first variant settles
V1Returns(r, out) ==
    Settles(r, "awaitGemini", "generateV1", out,
            V1Finish(body[r], out, Thrown(Settle(calls[r], out)), cache))

\* the Gemini call of /analyze settles
AnalyzeReturns(r, out) ==
    Settles(r, "awaitGemini", "analyze", out,
            AnalyzeFinish(body[r], out, Thrown(Settle(calls[r], out)), cache))

\* time passes: Date.now() advances by d
Tick(d) ==
    /\ ticks < MaxTicks
    /\ ticks' = ticks + 1
    /\ now' = now + d
    /\ UNCHANGED <<genAI, openai, cache, pc, ep, body, lookup, calls, geminiError, chainOut,
                   responses>>

Next ==
    \/ \E r \in Reqs : pc[r] = "idle" /\ \E b \in GenerateBodies : GenerateArrive(r, b)
    \/ \E r \in Reqs : pc[r] = "idle" /\ \E b \in OutputBodies : OutputArrive(r, b)
    \/ \E r \in Reqs : pc[r] = "awaitPrimary" /\ \E out \in PrimaryOutcomes : PrimaryReturns(r, out)
    \/ \E r \in Reqs : pc[r] = "awaitLite" /\ \E out \in LiteOutcomes : LiteReturns(r, out)
    \/ \E r \in Reqs : pc[r] = "awaitOpenAI" /\ \E out \in OpenAIOutcomes : OpenAIReturns(r, out)
    \/ \E r \in Reqs : pc[r] = "awaitGemini" /\ \E out \in OutputOutcomes : OutputReturns(r, out)
    \/ Tick(TickStep(ticks))

\* concurrent requests to /generate and /output-suggestions
Spec == Init /\ [][Next]_vars

\* one request to /generate: one run of generateWithFallback
NextChain ==
    \/ \E b \in ChainBodies : GenerateArrive(1, b)
    \/ \E out \in ChainPrimaryOutcomes : PrimaryReturns(1, out)
    \/ \E out \in ChainLiteOutcomes : LiteReturns(1, out)
    \/ \E out \in ChainOpenAIOutcomes : OpenAIReturns(1, out)

SpecChain == Init /\ [][NextChain]_vars

\* one request to the first variant of /generate
NextV1 ==
    \/ \E b \in V1Bodies : V1Arrive(1, b)
    \/ \E out \in V1Outcomes : V1Returns(1, out)

SpecV1 == Init /\ [][NextV1]_vars

\* one request to /output-suggestions
NextOutput ==
    \/ \E b \in AllOutputBodies : OutputArrive(1, b)
    \/ \E out \in AllOutputOutcomes : OutputReturns(1, out)

SpecOutput == Init /\ [][NextOutput]_vars

\* one request to one of the handlers, with every outcome
NextHandlers ==
    \/ \E b \in ChainBodies : GenerateArrive(1, b)
    \/ \E out \in ChainPrimaryOutcomes : PrimaryReturns(1, out)
    \/ \E out \in ChainLiteOutcomes : LiteReturns(1, out)
    \/ \E out \in ChainOpenAIOutcomes : OpenAIReturns(1, out)
    \/ \E b \in AllOutputBodies : OutputArrive(1, b)
    \/ \E out \in AllOutputOutcomes : OutputReturns(1, out)
    \/ \E b \in V1Bodies : V1Arrive(1, b)
    \/ \E out \in V1Outcomes : V1Returns(1, out)

SpecHandlers == Init /\ [][NextHandlers]_vars

\* the answers that hold one list of tags
ValidateOutcomes == Outcomes({Result(text) : text \in ListTexts \cup {TextMixed}}, {})

\* one request to /generate or /output-suggestions whose provider call
\* returns a list of tags: validateTags and validateSuggestion are applied
NextValidate ==
    \/ \E b \in {BodyPlain} : GenerateArrive(1, b)
    \/ \E b \in {BodyPlain} : OutputArrive(1, b)
    \/ \E out \in ValidateOutcomes : PrimaryReturns(1, out)
    \/ \E out \in ValidateOutcomes : OutputReturns(1, out)

SpecValidate == Init /\ [][NextValidate]_vars

\* one request to /analyze
NextAnalyze ==
    \/ \E b \in AnalyzeBodies : AnalyzeArrive(1, b)
    \/ \E out \in AnalyzeOutcomes : AnalyzeReturns(1, out)

SpecAnalyze == Init /\ [][NextAnalyze]_vars

\* concurrent requests to /generate (both variants), /output-suggestions
\* and /analyze
NextRoutes ==
    \/ \E r \in Reqs : pc[r] = "idle" /\ \E b \in RoutesBodies : GenerateArrive(r, b)
    \/ \E r \in Reqs : pc[r] = "idle" /\ \E b \in RoutesBodies : OutputArrive(r, b)
    \/ \E r \in Reqs : pc[r] = "idle" /\ \E b \in RoutesBodies : V1Arrive(r, b)
    \/ \E r \in Reqs : pc[r] = "idle" /\ \E b \in RoutesAnalyzeBodies : AnalyzeArrive(r, b)
    \/ \E r \in Reqs : pc[r] = "awaitPrimary"
            /\ \E out \in RoutesPrimaryOutcomes : PrimaryReturns(r, out)
    \/ \E r \in Reqs : pc[r] = "awaitLite" /\ \E out \in RoutesLaterOutcomes : LiteReturns(r, out)
    \/ \E r \in Reqs : pc[r] = "awaitOpenAI"
            /\ \E out \in RoutesLaterOutcomes : OpenAIReturns(r, out)
    \/ \E r \in Reqs : pc[r] = "awaitGemini"
            /\ \E out \in RoutesLaterOutcomes : OutputReturns(r, out)
    \/ \E r \in Reqs : pc[r] = "awaitGemini"
            /\ \E out \in Outcomes({MethodResult(TextGood)}, {E500}) : V1Returns(r, out)
    \/ \E r \in Reqs : pc[r] = "awaitGemini"
            /\ \E out \in RoutesAnalyzeOutcomes : AnalyzeReturns(r, out)

SpecRoutes == Init /\ [][NextRoutes]_vars

\* concurrent requests to /generate and /output-suggestions with field
\* values that hold ':' (no OpenAI answer is needed to fill the cache)
NextKeys ==
    \/ \E r \in Reqs : pc[r] = "idle" /\ \E b \in KeysGenerateBodies : GenerateArrive(r, b)
    \/ \E r \in Reqs : pc[r] = "idle" /\ \E b \in KeysOutputBodies : OutputArrive(r, b)
    \/ \E r \in Reqs : pc[r] = "awaitPrimary"
            /\ \E out \in KeysPrimaryOutcomes : PrimaryReturns(r, out)
    \/ \E r \in Reqs : pc[r] = "awaitOpenAI"
            /\ \E out \in KeysOutputOutcomes : OpenAIReturns(r, out)
    \/ \E r \in Reqs : pc[r] = "awaitGemini"
            /\ \E out \in KeysOutputOutcomes : OutputReturns(r, out)
    \/ Tick(TickStep(ticks))

SpecKeys == Init /\ [][NextKeys]_vars

-----------------------------------------------------------------------------
(* Properties of generateWithFallback                                      *)

\* the positions in the call log of r of the calls to a tier
TierCalls(r, tier) == {i \in 1..Len(calls[r]) : calls[r][i].tier = tier}

\* the primary call of r has failed, and with what
PrimaryFailed(r) == ep[r] = "generate" /\ Len(calls[r]) >= 1 /\ calls[r][1].state = "failed"
PrimaryError(r) == calls[r][1].error

\* the words that mark a failure as rate-limited or overloaded
TransientWords == {MsgQuota, MsgRateLimit, MsgOverloaded}

\* a failure with status 429 or 503, or with one of the words in its message
RateLimitedOrOverloaded(e) ==
    e.status = 429 \/ e.status = 503 \/ \E w \in TransientWords : StrIncludes(e.message, w)

UpperCase == <<"A", "B", "C", "D", "E", "F", "G", "H", "I", "J", "K", "L", "M",
               "N", "O", "P", "Q", "R", "S", "T", "U", "V", "W", "X", "Y", "Z">>
LowerCase == <<"a", "b", "c", "d", "e", "f", "g", "h", "i", "j", "k", "l", "m",
               "n", "o", "p", "q", "r", "s", "t", "u", "v", "w", "x", "y", "z">>

\* a string in lower case, as characters
ToLower(cs) ==
    [i \in 1..Len(cs) |->
        IF \E k \in 1..26 : UpperCase[k] = cs[i]
        THEN LowerCase[CHOOSE k \in 1..26 : UpperCase[k] = cs[i]]
        ELSE cs[i]]

\* The classification the specification asks for: by the status code when
\* there is one, and otherwise by the words in the message, in any letter case.
ClassifiedTransient(e) ==
    IF e.status # 0 THEN e.status = 429 \/ e.status = 503
    ELSE \E w \in TransientWords : Includes(ToLower(Chars(e.message)), Chars(w))

\* C2: when the primary call fails with status 401, or with a failure that
\* is not classified as rate-limited or overloaded, no call to the lighter
\* model is made for the request.
C2_NoLiteAfterNonTransient ==
    \A r \in Reqs :
        (PrimaryFailed(r)
            /\ (PrimaryError(r).status = 401 \/ ~ClassifiedTransient(PrimaryError(r)))) =>
                TierCalls(r, "lite") = {}

\* C3: when generateWithFallback throws, it throws the error of the primary call.
C3_ThrowsPrimaryError ==
    \A r \in Reqs :
        (ep[r] = "generate" /\ chainOut[r].kind = "throw") =>
            chainOut[r].error = PrimaryError(r)

\* the place of a tier in the chain
Rank(tier) == CASE tier = "primary" -> 1 [] tier = "lite" -> 2 [] tier = "openai" -> 3

\* C4: in a run of generateWithFallback every later call is to a later tier:
\* no tier is called twice, and none after a tier that comes after it.
C4_TiersOnceInOrder ==
    \A r \in Reqs :
        ep[r] = "generate" =>
            \A i, j \in 1..Len(calls[r]) :
                i < j => Rank(calls[r][i].tier) < Rank(calls[r][j].tier)

\* all three tiers were called and failed
C4_Witness ==
    /\ Len(calls[1]) = 3
    /\ \A i \in 1..3 : calls[1][i].state = "failed"
    /\ chainOut[1].kind = "throw"

\* C5: when the primary or the lighter Gemini call succeeds, it is the last
\* call of the run, and the chain returns its result.
C5_ShortCircuit ==
    \A r \in Reqs :
        ep[r] = "generate" =>
            \A i \in 1..Len(calls[r]) :
                (calls[r][i].tier \in {"primary", "lite"} /\ calls[r][i].state = "ok") =>
                    /\ i = Len(calls[r])
                    /\ chainOut[r].kind = "return"
                    /\ chainOut[r].provider = "gemini"
                    /\ chainOut[r].result = calls[r][i].result

\* the lite call succeeded after the primary call failed, with OpenAI configured
C5_Witness ==
    /\ openai
    /\ Len(calls[1]) = 2
    /\ calls[1][1].state = "failed"
    /\ calls[1][2].tier = "lite"
    /\ calls[1][2].state = "ok"
    /\ chainOut[1].kind = "return"

\* C6: when the lite call has failed and OpenAI is configured, the third and
\* last call of the run is the one OpenAI call, the chain throws only after
\* it has settled, and when generateWithOpenAI succeeds (the answer has
\* content and the content is JSON) the chain returns it with provider 'openai'.
C6_OpenAIAfterLiteFailure ==
    \A r \in Reqs :
        (ep[r] = "generate" /\ openai /\ Len(calls[r]) >= 2
            /\ calls[r][2].tier = "lite" /\ calls[r][2].state = "failed") =>
                /\ Len(calls[r]) = 3
                /\ TierCalls(r, "openai") = {3}
                /\ chainOut[r].kind = "throw" => calls[r][3].state = "failed" \/ calls[r][3].state = "ok"
                /\ (calls[r][3].state = "ok" /\ calls[r][3].result.text # TextEmpty
                        /\ IsJson(calls[r][3].result.text)) =>
                    /\ chainOut[r].kind = "return"
                    /\ chainOut[r].provider = "openai"
                    /\ chainOut[r].result.text = calls[r][3].result.text

\* the lite call failed with a message error and OpenAI answered
C6_Witness ==
    /\ Len(calls[1]) = 3
    /\ calls[1][2].state = "failed"
    /\ calls[1][2].error.status = 0
    /\ calls[1][3].state = "ok"
    /\ chainOut[1].provider = "openai"

-----------------------------------------------------------------------------
(* Properties of the handlers                                              *)

\* the handler of r has run to its end, by a response or by a rejection
Ended(r) == pc[r] = "done" \/ pc[r] = "rejected"

\* C7: a run of /generate or /output-suggestions that has ended has sent
\* exactly one response, whatever the request body and the provider outcomes.
C7_OneResponse ==
    \A r \in Reqs :
        (ep[r] \in {"generate", "output"} /\ Ended(r)) => Len(responses[r]) = 1

\* r is a request to /generate (either variant) that passed the validation
\* and has been answered
ValidGenerate(r) ==
    /\ ep[r] \in {"generate", "generateV1"}
    /\ ~MissingFields(body[r])
    /\ pc[r] = "done"
    /\ Len(responses[r]) = 1

\* the tags are a leading slice of the static dataset, and not empty
StaticSlice(tags) == Len(tags) >= 1 /\ tags = Slice(FALLBACK_TAGS, Len(tags))

\* generation for r failed after the validation: the last provider call
\* failed, or the handler threw on its way to the response (only the catch
\* block answers with a message while the Gemini client is configured)
FailedAfterValidation(r) ==
    /\ ValidGenerate(r)
    /\ genAI
    /\ "message" \in responses[r][1].keys

\* C8: every failure of a valid /generate request after the validation is
\* answered with status 200, success true, fallback true and a leading slice
\* of the static dataset as tags.
C8_FailureGivesStaticTags ==
    \A r \in Reqs :
        FailedAfterValidation(r) =>
            /\ responses[r][1].status = 200
            /\ responses[r][1].success
            /\ responses[r][1].fallback
            /\ StaticSlice(responses[r][1].tags)

\* the count of tags a /generate request asks for
RequiredCount(r) == IF ep[r] = "generateV1" THEN V1Count(body[r]) ELSE TagCount

\* C9: with no provider credentials, every valid /generate request is
\* answered with success true, fallback true and the first tags of the
\* static dataset, as many as the required count.
C9_NoCredentialsGivesStaticTags ==
    \A r \in Reqs :
        (ValidGenerate(r) /\ ~genAI /\ ~openai) =>
            /\ responses[r][1].success
            /\ responses[r][1].fallback
            /\ responses[r][1].tags = Slice(FALLBACK_TAGS, RequiredCount(r))
            /\ responses[r][1].tags # <<>>

\* the tags of the response to r were produced by the primary model: the
\* primary call is the only call, it succeeded, and the response was built
\* from its result
FromPrimary(r) ==
    /\ Len(calls[r]) = 1
    /\ calls[r][1].tier = "primary"
    /\ calls[r][1].state = "ok"
    /\ "message" \notin responses[r][1].keys

\* C10: in the response of /generate to a valid request, fallback is false
\* exactly when the primary model produced the tags.
C10_FallbackIffBeyondPrimary ==
    \A r \in Reqs :
        (ep[r] = "generate" /\ ValidGenerate(r)) =>
            (responses[r][1].fallback <=> ~FromPrimary(r))

-----------------------------------------------------------------------------
(* Properties of the cache                                                 *)

\* two bodies with the same topic, intent and persona
SameTriple(b1, b2) ==
    b1.topic = b2.topic /\ b1.intent = b2.intent /\ b1.persona = b2.persona

\* in this step request r reaches the handler of endpoint
ArrivesAt(r, endpoint) == pc[r] = "idle" /\ pc'[r] # "idle" /\ ep'[r] = endpoint

\* in this step the handler of r sends its response
Answers(r) == responses[r] = <<>> /\ responses'[r] # <<>>

\* r has been answered with a payload built from a provider result (or with
\* a cached copy of one): only the static answers carry a message
AnsweredFresh(r) ==
    /\ pc[r] = "done"
    /\ Len(responses[r]) = 1
    /\ responses[r][1].status = 200
    /\ "message" \notin responses[r][1].keys

\* r has been answered, and the validation let it pass
AnsweredValid(r) ==
    pc[r] = "done" /\ Len(responses[r]) = 1 /\ responses[r][1].status = 200

KeyOf(endpoint, b) == IF endpoint = "generate" THEN GenerateKey(b) ELSE OutputKey(b)

\* in this step request r reaches /generate or /output-suggestions with a
\* body that passes the validation and gives a cache key
LooksUp(r) ==
    /\ (ArrivesAt(r, "generate") \/ ArrivesAt(r, "output"))
    /\ ~MissingFields(body'[r])
    /\ ep'[r] = "output" => ~OutputKeyThrows(body'[r])

\* C12: a request is answered with the cached payload only when the entry of
\* its key has an age below CACHE_TTL_MS at the lookup; a lookup that finds
\* an entry of age CACHE_TTL_MS or more does not serve it and removes it.
C12_ServedOnlyWithinTTL ==
    [][\A r \in Reqs :
        LooksUp(r) =>
            LET key == KeyOf(ep'[r], body'[r])
                found == HasEntry(cache, key)
                age == now - EntryOf(cache, key).timestamp
            IN /\ (responses'[r] # <<>> /\ "message" \notin responses'[r][1].keys) =>
                    /\ found
                    /\ age < CACHE_TTL_MS
                    /\ responses'[r] = <<EntryOf(cache, key).data>>
               /\ (found /\ age >= CACHE_TTL_MS) =>
                    /\ ~HasEntry(cache', key)
                    /\ responses'[r] # <<EntryOf(cache, key).data>>
                    /\ \A e \in cache : e.key # key => e \in cache']_vars

\* the second request found the entry of the first at the age of exactly
\* CACHE_TTL_MS, removed it and went on to call the provider
C12_Witness ==
    /\ ep[1] = "generate" /\ ep[2] = "generate"
    /\ AnsweredFresh(1) /\ calls[1] # <<>>
    /\ SameTriple(body[1], body[2])
    /\ pc[2] = "awaitPrimary"
    /\ now = CACHE_TTL_MS
    /\ cache = {}

\* r is served by one of the two handlers that use the cache
UsesCache(r) == ep[r] = "generate" \/ ep[r] = "output"

\* the cache holds, for the key of r, the payload sent to r in this step,
\* stamped with the time of this step
HoldsFreshEntry(r) ==
    LET key == KeyOf(ep[r], body[r])
    IN /\ HasEntry(cache', key)
       /\ EntryOf(cache', key).data = responses'[r][1]
       /\ EntryOf(cache', key).timestamp = now

-----------------------------------------------------------------------------
(* Properties of the tags and suggestions                                  *)

\* the members of a sequence
Range(seq) == {seq[i] : i \in 1..Len(seq)}

\* the response sent to r
Sent(r) == responses[r][1]

\* the tags of a /generate payload that a provider returned: the groups of
\* the payload hold the validated provider tags and nothing else
ProviderTags(resp) == Range(AllTags(resp.groups))

\* C14: no provider-returned tag in the tags of a /generate response is an
\* entry of the selectedTags of the request it answers, also when the
\* response is served from the cache.
C14_NoSelectedTagInResponse ==
    \A r \in Reqs :
        (ep[r] = "generate" /\ AnsweredFresh(r)) =>
            \A t \in Range(Sent(r).tags) \cap ProviderTags(Sent(r)) :
                t \notin Range(Default(body[r].selectedTags).items)

\* r is a valid /generate request that was answered with the static answer
\* (no credentials, or the catch block)
AnsweredStatic(r) ==
    /\ ep[r] = "generate"
    /\ AnsweredValid(r)
    /\ "message" \in Sent(r).keys

\* C15: no tag of selectedTags or visibleTags of a /generate request is among
\* the tags of a static-fallback response to it.
C15_StaticAnswerExcludesExisting ==
    \A r \in Reqs :
        (AnsweredStatic(r) /\ ~ExistingTagsThrows(body[r])) =>
            Range(Sent(r).tags) \cap Range(ExistingTags(body[r])) = {}

\* What the claim asks of an entry, on its characters: the entry without
\* the characters that are neither word characters nor white space and
\* without white space at its ends, and the number of its words.
Normalized(cs) ==
    LET kept == SelectSeq(cs, LAMBDA c : c \in WordChars \/ c \in SpaceChars)
        inked == {i \in 1..Len(kept) : kept[i] \notin SpaceChars}
    IN IF inked = {} THEN <<>>
       ELSE SubSeq(kept, CHOOSE i \in inked : \A j \in inked : i <= j,
                         CHOOSE i \in inked : \A j \in inked : i >= j)

WordsIn(cs) ==
    Cardinality({i \in 1..Len(cs) :
                    cs[i] \notin SpaceChars /\ (i = 1 \/ cs[i - 1] \in SpaceChars)})

\* the normalized texts of the entries of tags that have three or four words
RECURSIVE ExpectedValid(_)
ExpectedValid(tags) ==
    IF tags = <<>> THEN <<>>
    ELSE LET text == Normalized(Chars(Head(tags)))
         IN (IF WordsIn(text) \in 3..4 THEN <<text>> ELSE <<>>) \o ExpectedValid(Tail(tags))

\* the characters of each string of a list
CharsOfAll(seq) == [i \in 1..Len(seq) |-> Chars(seq[i])]

\* r was answered from a provider result that JSON.parse accepted
AnsweredFromResult(r) ==
    /\ AnsweredFresh(r)
    /\ calls[r] # <<>>
    /\ calls[r][Len(calls[r])].state = "ok"

\* the payload the provider returned for r
Returned(r) == JsonParse(calls[r][Len(calls[r])].result.text)

\* C16: validateTags gives, in order, the normalized text of exactly the
\* entries that have three or four words after normalization (the groups of
\* a /generate response are what validateTags gave), and the suggestions of
\* /output-suggestions are built from the same selection of validateSuggestion
\* and its map.
C16_ValidationKeepsThreeAndFourWords ==
    \A r \in Reqs :
        AnsweredFromResult(r) =>
            /\ ep[r] = "generate" =>
                \A i \in 1..Len(GroupNames) :
                    Returned(r)[GroupNames[i]].kind = "array" =>
                        CharsOfAll(Sent(r).groups[i])
                            = ExpectedValid(Strings(Returned(r)[GroupNames[i]].items))
            /\ (ep[r] = "output" /\ Returned(r).suggestions.kind = "array") =>
                LET valid == ExpectedValid(Strings(Returned(r).suggestions.items))
                    fresh == SelectSeq(valid,
                                LAMBDA s : ~Contains(CharsOfAll(ExistingOutputs(body[r])), s))
                IN \A k \in 1..Min(Len(fresh), Len(Sent(r).suggestions)) :
                        Chars(Sent(r).suggestions[k]) = fresh[k]

\* of tags with two, three, four and five words the two in the middle are kept
C16_Witness ==
    /\ ep[1] = "generate"
    /\ AnsweredFromResult(1)
    /\ calls[1][1].result.text = TextMixed
    /\ Sent(1).groups[1] = <<TagClass10, TagFriendly>>

\* What the fill of the response to r started from and drew on: the
\* validated batch without the excluded entries, the excluded entries, the
\* static dataset and the required count.
\* (The first variant of /generate neither excludes nor fills.)
Excluded(r) ==
    CASE ep[r] = "generate" -> ExistingTags(body[r])
      [] ep[r] = "output" -> ExistingOutputs(body[r])
      [] ep[r] = "generateV1" -> <<>>

Batch(r) ==
    SelectSeq(CASE ep[r] = "generate" -> AllTags(Sent(r).groups)
                [] ep[r] = "output" -> validateTags(Returned(r).suggestions)
                [] ep[r] = "generateV1" -> V1Filter(Returned(r)),
              LAMBDA t : ~Contains(Excluded(r), t))

Static(r) ==
    CASE ep[r] = "generate" -> FALLBACK_TAGS
      [] ep[r] = "output" -> FALLBACK_OUTPUT
      [] ep[r] = "generateV1" -> <<>>

Required(r) ==
    CASE ep[r] = "generate" -> TagCount
      [] ep[r] = "output" -> SuggestionCount
      [] ep[r] = "generateV1" -> V1Count(body[r])

\* the list the response to r carries
Final(r) == IF ep[r] = "output" THEN Sent(r).suggestions ELSE Sent(r).tags

\* the static entries that are neither in the batch nor excluded
Eligible(r) ==
    {s \in Range(Static(r)) : ~Contains(Batch(r), s) /\ ~Contains(Excluded(r), s)}

\* C17: on the fresh path a batch below the required count is followed by
\* eligible static entries, each once, and the final length is the smaller of
\* the required count and batch size plus the number of eligible entries.
C17_FillToQuota ==
    \A r \in Reqs :
        (UsesCache(r) /\ AnsweredFromResult(r) /\ Len(Batch(r)) < Required(r)) =>
            /\ Len(Final(r)) = Min(Required(r), Len(Batch(r)) + Cardinality(Eligible(r)))
            /\ SubSeq(Final(r), 1, Len(Batch(r))) = Batch(r)
            /\ \A k \in (Len(Batch(r)) + 1)..Len(Final(r)) :
                /\ Final(r)[k] \in Eligible(r)
                /\ \A j \in (Len(Batch(r)) + 1)..Len(Final(r)) :
                        Final(r)[j] = Final(r)[k] => j = k

\* a batch of two tags was filled to seven, with two static entries excluded
C17_Witness ==
    /\ ep[1] = "generate"
    /\ AnsweredFromResult(1)
    /\ Len(Batch(1)) = 2
    /\ Len(Final(1)) = TagCount
    /\ Cardinality(Eligible(1)) = Len(FALLBACK_TAGS) - 2

\* C18: no response carries more tags or suggestions than the required count
\* (7 tags, or the 3 or 5 the first variant asks for; 3 suggestions), and a
\* batch of at least the required count gives exactly its first entries, in
\* their order.
C18_NeverMoreThanRequired ==
    \A r \in Reqs :
        /\ Len(responses[r]) = 1 =>
            /\ Len(Sent(r).tags) <= TagCount
            /\ Len(Sent(r).suggestions) <= SuggestionCount
            /\ ep[r] = "generateV1" => Len(Sent(r).tags) <= V1Count(body[r])
        /\ (AnsweredFromResult(r) /\ Len(Batch(r)) >= Required(r)) =>
            Final(r) = SubSeq(Batch(r), 1, Required(r))

\* the provider returned more valid tags than seven, among them a static one
C18_Witness ==
    /\ ep[1] = "generate"
    /\ AnsweredFromResult(1)
    /\ Len(Batch(1)) > TagCount
    /\ Len(Final(1)) = TagCount
    /\ \E k \in 1..Len(Batch(1)) : Contains(FALLBACK_TAGS, Batch(1)[k])

NoDuplicates(s) == \A i, j \in 1..Len(s) : s[i] = s[j] => i = j

\* C19: the tags of a /generate response and the suggestions of an
\* /output-suggestions response hold no string twice, whatever the provider
\* returned.
C19_NoDuplicateInResponse ==
    \A r \in Reqs :
        (UsesCache(r) /\ Len(responses[r]) = 1) =>
            /\ NoDuplicates(Sent(r).tags)
            /\ NoDuplicates(Sent(r).suggestions)

\* the provider call of r returned and the handler read a payload out of it
ResultRead(r) ==
    /\ pc[r] = "done"
    /\ Len(responses[r]) = 1
    /\ chainOut[r].kind = "return"
    /\ CASE ep[r] = "generate" ->
                ~ParseThrows(chainOut[r]) /\ ~GroupsThrow(Parsed(chainOut[r]))
         [] ep[r] = "output" ->
                ~ParseThrows(chainOut[r]) /\ ~SuggestionsThrow(Parsed(chainOut[r]))
         [] ep[r] = "generateV1" ->
                ~V1ParseThrows(chainOut[r].result) /\ ~V1FilterThrows(Parsed(chainOut[r]))
         [] OTHER -> FALSE

\* what is left of the payload after validation and exclusion filtering
Survivors(r) ==
    CASE ep[r] = "generate" ->
            SelectSeq(AllTags(Groups(Parsed(chainOut[r]))),
                      LAMBDA t : ~Contains(ExistingTags(body[r]), t))
      [] ep[r] = "output" ->
            SelectSeq(validateTags(Parsed(chainOut[r]).suggestions),
                      LAMBDA s : ~Contains(ExistingOutputs(body[r]), s))
      [] ep[r] = "generateV1" -> V1Filter(Parsed(chainOut[r]))

\* C20: when the provider call succeeded and no entry survives validation and
\* exclusion filtering, the response has fallback true and the cache holds
\* no entry for the request.
C20_NoSurvivorIsFailure ==
    \A r \in Reqs :
        (ResultRead(r) /\ Survivors(r) = <<>>) =>
            /\ Sent(r).fallback
            /\ UsesCache(r) => ~HasEntry(cache, KeyOf(ep[r], body[r]))

-----------------------------------------------------------------------------
(* Classification, analysis and the paths of a request                     *)

\* C22: a primary failure without a status code whose message holds quota,
\* rate limit or overloaded in any letter case is followed by a call to the
\* lighter model, and a primary failure with a status code is followed by
\* one exactly when the status is 429 or 503, whatever its message.
C22_StatusFirstThenMessageAnyCase ==
    \A r \in Reqs :
        PrimaryFailed(r) =>
            LET e == PrimaryError(r)
            IN /\ (e.status = 0 /\ ClassifiedTransient(e)) => TierCalls(r, "lite") # {}
               /\ e.status # 0 => (TierCalls(r, "lite") # {} <=> e.status \in {429, 503})

\* the provider call of /analyze for r has failed, and with what
AnalyzeFailed(r) == ep[r] = "analyze" /\ calls[r] # <<>> /\ calls[r][1].state = "failed"
AnalyzeError(r) == calls[r][1].error

\* the status the error handling of /analyze is documented with
StatusByError(e) ==
    IF e.status = 401 THEN 401
    ELSE IF e.status = 429 THEN 429
    ELSE IF e.status = 403 THEN 403
    ELSE IF e.code \in NetworkCodes THEN 503
    ELSE 500

\* C23: a failure of the provider call of /analyze is answered with one
\* response, whose status is 401, 429 or 403 for an error of that status, 503
\* for a network code, and 500 for every other error.
C23_AnalyzeStatusByError ==
    \A r \in Reqs :
        AnalyzeFailed(r) =>
            /\ Len(responses[r]) = 1
            /\ Sent(r).status = StatusByError(AnalyzeError(r))

\* the provider call of /analyze for r returned and r was answered with
\* status 200
AnalyzeSucceeded(r) ==
    /\ ep[r] = "analyze"
    /\ Len(responses[r]) = 1
    /\ Sent(r).status = 200

\* the improvedPrompt the provider returned for r, when it is an object
ReturnedImproved(r) == AnalyzeJsonTable[JsonText(calls[r][1].result)].improvedPrompt

ImprovedFields == {"role", "context", "task", "format", "tone", "persona", "exemplars"}

\* a value the provider gave: not left out, not null, not the empty string
Present(x) == x.kind \notin {"undefined", "null"} /\ x # JStr("")

\* C24: the improvedPrompt of a successful /analyze response has all seven
\* fields: task is the provider's task when it gave one and the studentPrompt
\* of the request otherwise, every other field is the provider's value when
\* it gave one and null otherwise (an empty string counts as none), also when
\* the provider returned no improvedPrompt object.
C24_ImprovedPromptComplete ==
    \A r \in Reqs :
        AnalyzeSucceeded(r) =>
            LET sent == Sent(r).output.improvedPrompt
                given == ReturnedImproved(r)
            IN /\ "improvedPrompt" \in Sent(r).keys
               /\ ImprovedFields \subseteq DOMAIN sent
               /\ \A f \in ImprovedFields :
                    /\ sent[f].kind # "undefined"
                    /\ sent[f] = IF given.kind = "object" /\ Present(given[f]) THEN given[f]
                                 ELSE IF f = "task" THEN body[r].studentPrompt
                                 ELSE JNull

\* the provider gave a role and no task: the task is the prompt of the request
C24_Witness ==
    /\ AnalyzeSucceeded(1)
    /\ ReturnedImproved(1).kind = "object"
    /\ ReturnedImproved(1).task = JUndef
    /\ Sent(1).output.improvedPrompt.task = JStr(PromptPadded)
    /\ Sent(1).output.improvedPrompt.role = JStr(RoleText)
    /\ Sent(1).output.improvedPrompt.context = JNull

\* the body b sent to the handler of endpoint lacks a required field: for
\* /analyze a studentPrompt that is a string with a character that is no
\* white space, for the tag handlers a topic, an intent and a persona
LacksRequired(endpoint, b) ==
    IF endpoint = "analyze"
    THEN \/ b.studentPrompt.kind # "string"
         \/ \A i \in 1..Len(Chars(b.studentPrompt.v)) :
                Chars(b.studentPrompt.v)[i] \in SpaceChars
    ELSE b.topic = "" \/ b.intent = "" \/ b.persona = ""

BothMissed(r, q) ==
    /\ r # q
    /\ UsesCache(r) /\ ep[q] = ep[r]
    /\ lookup[r] = "miss" /\ lookup[q] = "miss"
    /\ KeyOf(ep[r], body[r]) = KeyOf(ep[q], body[q])

\* C25: two requests for one cache key that both found no entry each go
\* through generation on their own: each makes its own provider call (unless
\* its own tag lists stop it before the call), each is answered once, and
\* a fresh answer is built from the result of the request's own last call.
C25_NoSingleFlight ==
    \A r, q \in Reqs :
        (BothMissed(r, q) /\ genAI) =>
            /\ calls[r] # <<>> \/ (pc[r] = "done" /\ Sent(r).fallback)
            /\ pc[r] = "done" => Len(responses[r]) = 1
            /\ AnsweredFresh(r) =>
                /\ AnsweredFromResult(r)
                /\ ep[r] = "generate" =>
                    /\ IsJson(calls[r][Len(calls[r])].result.text)
                    /\ Sent(r).groups = Groups(Returned(r))

\* both requests were waiting for the primary model at one time
C25_Witness ==
    /\ BothMissed(1, 2)
    /\ ep[1] = "generate"
    /\ pc[1] = "done" /\ pc[2] = "done"
    /\ AnsweredFromResult(1)
    /\ Len(calls[1]) = 2
    /\ Len(calls[2]) = 1 /\ calls[2][1].state = "ok"
    /\ Sent(2).fallback

\* the text of a Gemini answer from which the handler gets no tags: empty,
\* no JSON, the value null, or with a tag that is no string
Unusable(text) ==
    \/ text = TextEmpty
    \/ ~IsJson(text)
    \/ JsonParse(text).kind = "null"
    \/ \E i \in 1..Len(GroupNames) : HasNotString(JsonParse(text)[GroupNames[i]])

\* the response is the static answer of /generate
IsStaticAnswer(resp) ==
    /\ resp.status = 200
    /\ resp.fallback
    /\ resp.tags = SubSeq(FALLBACK_TAGS, 1, TagCount)

\* C26: a /generate request whose chain threw, or whose answer from a Gemini
\* tier cannot be parsed or validated, has ended with the static answer and
\* that call is its last: no OpenAI call follows an unusable Gemini answer.
C26_FailureEndsInStaticAnswer ==
    \A r \in Reqs :
        ep[r] = "generate" =>
            /\ chainOut[r].kind = "throw" =>
                /\ pc[r] = "done"
                /\ responses[r] # <<>> /\ IsStaticAnswer(Sent(r))
                /\ \A i \in 1..Len(calls[r]) : calls[r][i].state # "pending"
            /\ \A i \in 1..Len(calls[r]) :
                (calls[r][i].tier \in {"primary", "lite"} /\ calls[r][i].state = "ok"
                    /\ Unusable(calls[r][i].result.text)) =>
                        /\ i = Len(calls[r])
                        /\ TierCalls(r, "openai") = {}
                        /\ pc[r] = "done"
                        /\ responses[r] # <<>> /\ IsStaticAnswer(Sent(r))

\* the lighter model answered with text that is no JSON while OpenAI was
\* configured
C26_Witness ==
    /\ openai
    /\ ep[1] = "generate"
    /\ Len(calls[1]) = 2
    /\ calls[1][2].tier = "lite" /\ calls[1][2].state = "ok"
    /\ calls[1][2].result.text = TextInvalid
    /\ pc[1] = "done"
    /\ IsStaticAnswer(Sent(1))

\* C27: an entry comes into the cache only in the step in which a request
\* that found no entry to serve is answered from the result of a successful
\* provider call, and it holds that answer under the key of the request; so
\* every payload in the cache has success true and fallback false (no static
\* answer and no 400 answer is stored).
C27_OnlyFreshResultsCached ==
    [][/\ \A e \in cache' \ cache :
            \E r \in Reqs :
                /\ UsesCache(r)
                /\ Answers(r)
                /\ lookup[r] \in {"miss", "expired"}
                /\ calls'[r] # <<>> /\ calls'[r][Len(calls'[r])].state = "ok"
                /\ e.key = KeyOf(ep[r], body[r])
                /\ e.data = responses'[r][1]
       /\ \A e \in cache' :
            /\ e.data.status = 200
            /\ e.data.success
            /\ ~e.data.fallback
            /\ "message" \notin e.data.keys]_vars

\* the first request was answered with the static answer after its call
\* failed and left the cache empty; the second one was answered from the
\* provider's result, which is the one entry of the cache
C27_Witness ==
    /\ ep[1] = "generate" /\ ep[2] = "generate"
    /\ SameTriple(body[1], body[2])
    /\ pc[1] = "done" /\ Sent(1).fallback /\ calls[1] # <<>>
    /\ lookup[2] = "miss"
    /\ AnsweredFromResult(2)
    /\ cache = {[key |-> GenerateKey(body[2]), data |-> Sent(2), timestamp |-> now]}

\* s can be had from t by leaving entries out
RECURSIVE IsSubsequence(_, _)
IsSubsequence(s, t) ==
    IF s = <<>> THEN TRUE
    ELSE IF t = <<>> THEN FALSE
    ELSE IF Head(s) = Head(t) THEN IsSubsequence(Tail(s), Tail(t))
    ELSE IsSubsequence(s, Tail(t))

\* the entries of the payload for r, normalized, group after group in the
\* order of GroupNames and within a group in the order they came
RECURSIVE ProviderOrderFrom(_, _)
ProviderOrderFrom(parsed, i) ==
    IF i > Len(GroupNames) THEN <<>>
    ELSE MapClean(Strings(parsed[GroupNames[i]].items)) \o ProviderOrderFrom(parsed, i + 1)

ProviderOrder(r) == ProviderOrderFrom(Returned(r), 1)

\* C28: the tags of a freshly generated /generate response are provider tags
\* in group order and, within a group, in the provider's order, followed by
\* the static entries that fill the quota, in the order of the static dataset.
C28_GroupOrderThenStaticOrder ==
    \A r \in Reqs :
        (ep[r] = "generate" /\ AnsweredFromResult(r)) =>
            LET tags == Sent(r).tags
                n == Min(Len(Batch(r)), TagCount)
            IN /\ SubSeq(tags, 1, n) = SubSeq(Batch(r), 1, n)
               /\ IsSubsequence(SubSeq(tags, 1, n), ProviderOrder(r))
               /\ IsSubsequence(SubSeq(tags, n + 1, Len(tags)), FALLBACK_TAGS)
               /\ \A k \in (n + 1)..Len(tags) : ~Contains(SubSeq(tags, 1, n), tags[k])

\* tags of four groups, the third of them with punctuation, and three
\* static entries after them
C28_Witness ==
    /\ ep[1] = "generate"
    /\ AnsweredFromResult(1)
    /\ Sent(1).tags = <<TagFriendly, TagClass10, TagPunctClean, TagStatic1,
                        FALLBACK_TAGS[2], FALLBACK_TAGS[3], FALLBACK_TAGS[4]>>

\* C29: no list of the groups of a /generate response holds a tag of the
\* selectedTags or the visibleTags of the request.
C29_NoExcludedTagInGroups ==
    \A r \in Reqs :
        (ep[r] = "generate" /\ Len(responses[r]) = 1) =>
            \A i \in 1..Len(GroupNames) :
                \A k \in 1..Len(Sent(r).groups[i]) :
                    ~Contains(ExistingTags(body[r]), Sent(r).groups[i][k])

\* C30: the call to the lighter model carries the contents, the system
\* instruction, the response schema and the temperature of the call to the
\* primary model of the same run, under another model name.
C30_LiteCallRepeatsPrimaryParams ==
    \A r \in Reqs :
        ep[r] = "generate" =>
            \A i \in TierCalls(r, "lite") :
                /\ calls[r][1].tier = "primary"
                /\ calls[r][i].params = calls[r][1].params
                /\ calls[r][i].params # NoParams
                /\ calls[r][i].model # calls[r][1].model

\* a request with selected tags, which its system instruction lists, was
\* sent to the lighter model
C30_Witness ==
    /\ ep[1] = "generate"
    /\ body[1] = BodySelected
    /\ Len(calls[1]) >= 2
    /\ calls[1][2].tier = "lite"
    /\ calls[1][2].model = GeminiLiteModel
    /\ calls[1][2].params.systemInstruction[1] # <<>>
    /\ calls[1][2].params.temperature = 7

-----------------------------------------------------------------------------
(* Credentials, and the cache under concurrent requests                    *)

\* C31: without a Gemini client, /generate never runs generateWithFallback
\* and calls no provider, whether or not there is an OpenAI client: a run of
\* the chain always has a Gemini client.
C31_NoChainWithoutGeminiClient ==
    \A r \in Reqs :
        ep[r] = "generate" =>
            /\ ~genAI => (calls[r] = <<>> /\ chainOut[r] = NoChain /\ pc[r] \in {"idle", "done"})
            /\ (calls[r] # <<>> \/ chainOut[r] # NoChain) => genAI

\* with an OpenAI client and no Gemini client, a valid request was answered
\* with the static tags and no call was made
C31_Witness ==
    /\ ~genAI /\ openai
    /\ ep[1] = "generate"
    /\ ~MissingFields(body[1])
    /\ pc[1] = "done"
    /\ responses[1] = <<StaticTags(MsgNotConfigured)>>
    /\ calls[1] = <<>>

\* the topic, intent and persona of a body
Triple(b) == <<b.topic, b.intent, b.persona>>

\* r was served the cached payload
ServedFromCache(r) == lookup[r] = "hit" /\ pc[r] = "done" /\ Len(responses[r]) = 1

\* r was answered on the fresh-generation path: from the provider result of
\* its own call
Generated(r) == AnsweredFresh(r) /\ calls[r] # <<>>

\* C35: two /generate requests that differ in topic, intent or persona never
\* get the same cache key, also when a value holds ':'; so no request is
\* served the cached result of another triple.
C35_GenerateKeyInjective ==
    \A q, r \in Reqs :
        (/\ ep[q] = "generate" /\ ep[r] = "generate"
         /\ ~MissingFields(body[q]) /\ ~MissingFields(body[r])
         /\ Triple(body[q]) # Triple(body[r])) =>
            /\ GenerateKey(body[q]) # GenerateKey(body[r])
            /\ (Generated(q) /\ ServedFromCache(r)) => responses[r] # responses[q]

\* the keys of a payload of each of the two endpoints
ShapeOf(endpoint) ==
    IF endpoint = "generate" THEN {"success", "groups", "tags", "fallback"}
    ELSE {"success", "suggestions", "fallback"}

\* the entry written for the key when q was answered is the one r was served
WroteWhatWasServed(q, r) ==
    /\ Generated(q)
    /\ ServedFromCache(r)
    /\ KeyOf(ep[q], body[q]) = KeyOf(ep[r], body[r])
    /\ responses[r] = responses[q]

\* C36: /generate and /output-suggestions never read each other's entries,
\* whatever the topic, intent, persona and selected tags: the payload of a
\* cache hit has the shape of the endpoint that serves it.
C36_EndpointsKeepTheirEntries ==
    \A q, r \in Reqs :
        (UsesCache(q) /\ UsesCache(r) /\ ep[q] # ep[r]) =>
            /\ ~WroteWhatWasServed(q, r)
            /\ ServedFromCache(r) => responses[r][1].keys = ShapeOf(ep[r])

\* in this step r is answered from the provider result of its own call
AnswersFresh(r) ==
    /\ UsesCache(r)
    /\ Answers(r)
    /\ calls'[r] # <<>>
    /\ "message" \notin responses'[r][1].keys

\* C32: whatever the interleaving, a payload served from the cache is one
\* that was sent before, on the fresh-generation path, to a request of the
\* same endpoint with the same cache key; and a request answered on that
\* path leaves its own payload in the entry of its key, so that after two
\* concurrent generations the entry is that of the later write.
C32_CacheServesEarlierFreshResponse ==
    [][\A r \in Reqs :
        /\ (LooksUp(r) /\ lookup'[r] = "hit") =>
            \E q \in Reqs \ {r} :
                /\ ep[q] = ep'[r]
                /\ Generated(q)
                /\ KeyOf(ep[q], body[q]) = KeyOf(ep'[r], body'[r])
                /\ responses'[r] = responses[q]
        /\ AnswersFresh(r) => HoldsFreshEntry(r)]_vars

\* the age of an entry is below CACHE_TTL_MS now
ValidEntry(e) == now - e.timestamp < CACHE_TTL_MS

\* in this step r is answered with a static answer or with 400
AnswersStatic(r) == Answers(r) /\ "message" \in responses'[r][1].keys

\* C33: whatever the interleaving, the entry of a key leaves the cache only
\* when its age has reached CACHE_TTL_MS, in the lookup of a request with
\* that key; a valid entry stays or is replaced by a new entry for its key,
\* and the step in which a request is answered with the static fallback
\* leaves every valid entry as it is.
C33_OnlyExpiredEntriesDeleted ==
    [][/\ \A e \in cache :
            ~HasEntry(cache', e.key) =>
                /\ ~ValidEntry(e)
                /\ \E r \in Reqs : LooksUp(r) /\ KeyOf(ep'[r], body'[r]) = e.key
       /\ \A r \in Reqs :
            AnswersStatic(r) => \A e \in cache : ValidEntry(e) => e \in cache']_vars

\* two requests for one key missed the cache together; the first was answered
\* from the provider and wrote the entry, the other ended in the static
\* fallback after its calls failed, and the entry is still there, valid
C33_Witness ==
    /\ ep[1] = "generate" /\ ep[2] = "generate"
    /\ GenerateKey(body[1]) = GenerateKey(body[2])
    /\ lookup[1] = "miss" /\ lookup[2] = "miss"
    /\ Generated(1)
    /\ pc[2] = "done" /\ calls[2] # <<>> /\ Sent(2).fallback
    /\ HasEntry(cache, GenerateKey(body[1]))
    /\ EntryOf(cache, GenerateKey(body[1])).data = Sent(1)
    /\ ValidEntry(EntryOf(cache, GenerateKey(body[1])))

\* C34: a cache hit changes nothing in the cache, the timestamp of the entry
\* it serves included; the entry served is younger than CACHE_TTL_MS, counted
\* from the timestamp it was written with, whatever hits it has had.
C34_HitLeavesCacheUnchanged ==
    [][\A r \in Reqs :
        (LooksUp(r) /\ lookup'[r] = "hit") =>
            LET key == KeyOf(ep'[r], body'[r])
            IN /\ cache' = cache
               /\ responses'[r] = <<EntryOf(cache, key).data>>
               /\ now < EntryOf(cache', key).timestamp + CACHE_TTL_MS
               /\ \E q \in Reqs \ {r} :
                    /\ Generated(q)
                    /\ EntryOf(cache', key).timestamp <= now
                    /\ responses[q] = <<EntryOf(cache', key).data>>]_vars

\* an entry written at time 0 was served one millisecond before its end, and
\* still carries the timestamp 0
C34_Witness ==
    \E r \in Reqs :
        /\ UsesCache(r)
        /\ ServedFromCache(r)
        /\ now >= CACHE_TTL_MS - 1
        /\ HasEntry(cache, KeyOf(ep[r], body[r]))
        /\ EntryOf(cache, KeyOf(ep[r], body[r])).timestamp = 0
        /\ EntryOf(cache, KeyOf(ep[r], body[r])).data = Sent(r)

====
